---- MODULE Spec2Model ----
(***************************************************************************)
(* SignalRouter: the signal execution pipeline.                            *)
(*                                                                         *)
(* One request is in flight at a time; pc is its position.  Every broker   *)
(* call (order placement, order-status poll) is one step; the reads a      *)
(* handler makes before it places an order (strategy, position, balance,   *)
(* orderable amount, daily P&L) are inputs of the step that uses them.     *)
(*                                                                         *)
(* Optional values (Python None) are sequences: None is << >>, a present   *)
(* value x is << x >>.                                                     *)
(***************************************************************************)
EXTENDS Integers, Sequences, FiniteSets, TLC

(***************************************************************************)
(* Bounds of the model.                                                    *)
(***************************************************************************)
MaxQty == 3          \* largest quantity of a signal or an order
MaxPos == 2          \* largest |position| a position read reports
MaxPrice == 1        \* largest limit price of a signal
MaxClock == 40       \* the clock stops here
ClockStep == 10      \* seconds between two readings of the clock
MaxFetches == 2      \* fetch_func calls made in one behaviour
MaxIssued == 2       \* token requests sent in one behaviour
TokenLifetime == 30  \* seconds from a token's issuance to its expiry
MaxIdLen == 3          \* longest order number and order id, in characters
TicksPerSecond == 2    \* clock readings in a second
MaxRecords == 2        \* most records of ACCOUNTS_CONFIG
HeldBefore == 2        \* position held before the first SELL signal
MaxSells == 3          \* most orders placed by the SELL signals
MaxStatusQty == 2    \* largest quantity of a status record

(***************************************************************************)
(* Program constants.                                                      *)
(***************************************************************************)
DefaultFillTimeout == 60     \* wait_for_fill(timeout_seconds=60)
ExitFillTimeout == 120       \* wait_for_fill(..., timeout_seconds=120)
PollDelay == 1               \* time.sleep(1) before each status poll
PollPause == 4               \* time.sleep(4) after a non-terminal poll
PollErrorPause == 5          \* time.sleep(5) after a poll that raised
SEFillTimeout == 30          \* SignalExecutor: _wait_for_fill(..., timeout=30)
SEPollPause == 2             \* SignalExecutor._wait_for_fill: time.sleep(2)
DefaultMaxRatio == 100       \* check_position_limit: max_ratio = 1.0, in percent
DefaultMaxLoss == 5000000    \* check_daily_loss_limit: max_loss = -5000000
BalanceTTL == 30             \* get_balance: ttl=30
PositionsTTL == 20           \* get_positions: ttl=20
OrderableTTL == 10           \* get_orderable_amount: ttl=10

None == << >>
Some(x) == << x >>

Actions == {"BUY", "SELL"}
Transitions == {"ENTRY", "EXIT", "REVERSE"}
Prices == {None} \cup {Some(p) : p \in 1..MaxPrice}
Positions == (0 - MaxPos)..MaxPos

Abs(n) == IF n < 0 THEN 0 - n ELSE n

(***************************************************************************)
(* Order statuses a status poll reports (KisBroker._determine_order_status)*)
(* plus "NONE": the poll returned no record (KisBroker.get_order_status    *)
(* swallows the exception and falls off its end).                          *)
(***************************************************************************)
Statuses == {"PENDING", "PARTIAL_FILLED", "FILLED", "REJECTED", "CANCELLED"}
PollOutcomes == Statuses \cup {"NONE"}

(***************************************************************************)
(* The configuration the process was started with (accounts and            *)
(* strategies of config.yaml).  Ratios are in percent.  acc1 carries two   *)
(* active strategies and an inactive one, acc2 one strategy, acc3 is       *)
(* configured inactive.                                                    *)
(***************************************************************************)
AccountIds == {"acc1", "acc2", "acc3"}

Accounts ==
    [a \in AccountIds |->
       CASE a = "acc1" -> [type |-> "STOCK", is_active |-> TRUE]
         [] a = "acc2" -> [type |-> "FUTURES", is_active |-> TRUE]
         [] a = "acc3" -> [type |-> "STOCK", is_active |-> FALSE]]

StrategyNames == {"s1", "s2", "s3", "s4", "s5"}

Strategies ==
    [n \in StrategyNames |->
       CASE n = "s1" -> [name |-> n, account_id |-> "acc1", webhook_token |-> "tokA",
                         max_position_ratio |-> 30, max_daily_loss |-> 1000000,
                         is_active |-> TRUE]
         [] n = "s2" -> [name |-> n, account_id |-> "acc1", webhook_token |-> "tokB",
                         max_position_ratio |-> 50, max_daily_loss |-> 3000000,
                         is_active |-> TRUE]
         [] n = "s3" -> [name |-> n, account_id |-> "acc2", webhook_token |-> "tokC",
                         max_position_ratio |-> 100, max_daily_loss |-> 6000000,
                         is_active |-> TRUE]
         [] n = "s4" -> [name |-> n, account_id |-> "acc3", webhook_token |-> "tokD",
                         max_position_ratio |-> 100, max_daily_loss |-> 5000000,
                         is_active |-> TRUE]
         [] n = "s5" -> [name |-> n, account_id |-> "acc1", webhook_token |-> "tokE",
                         max_position_ratio |-> 10, max_daily_loss |-> 500000,
                         is_active |-> FALSE]]

\* Tokens a signal may carry: the configured ones, an unknown one, none.
Tokens == {Strategies[n].webhook_token : n \in StrategyNames} \cup {"tokX", ""}

\* ConfigLoader.get_strategy_by_token: the strategy whose webhook_token is
\* the given one, None when there is none.
get_strategy_by_token(webhook_token) ==
    IF \E n \in StrategyNames : Strategies[n].webhook_token = webhook_token
    THEN Some(Strategies[CHOOSE n \in StrategyNames :
                           Strategies[n].webhook_token = webhook_token])
    ELSE None

(***************************************************************************)
(* TradeExecutor.execute_signal: the pure steps of the pipeline.           *)
(***************************************************************************)
SignalData ==
    [action : Actions, quantity : {0 - 2, 0 - 1, 0} \cup (1..MaxQty),
     price : Prices, webhook_token : Tokens]

Min(S) == CHOOSE x \in S : \A y \in S : x <= y
Max(S) == CHOOSE x \in S : \A y \in S : x >= y

_error_result(error_type, message, details) ==
    [kind |-> "signal", success |-> FALSE, order_id |-> None,
     error_type |-> error_type, message |-> message, details |-> details,
     filled |-> FALSE]

\* What the broker's read API hands to Account: a payload and a status.
BalanceStatuses == {"success", "cached", "error_fallback"}
BalanceReads ==
    { [status |-> st, total_balance |-> m[1], available_balance |-> m[2]] :
        st \in BalanceStatuses, m \in {<< 0, 0 >>, << 10, 3 >>} }

\* The broker's answer when the orderable-amount read fails: zeroed
\* quantities, status error_safe.
OrderableFailure == [status |-> "error_safe", orderable_quantity |-> 0]

OrderableReads ==
    { [status |-> "success", orderable_quantity |-> n] : n \in {0, 5, 20, 40} }
      \cup { OrderableFailure }

FuturesQuotes == { [price |-> 0, multiplier |-> 1], [price |-> 2, multiplier |-> 1] }

\* Account.get_total_portfolio_value returns a dict (total_value, reliable);
\* check_position_limit and tests/test_trading.py take it for a number.
PortfolioReads ==
    { [type |-> "dict", total_value |-> 0, reliable |-> FALSE],
      [type |-> "dict", total_value |-> 10, reliable |-> TRUE],
      [type |-> "number", total_value |-> 0, reliable |-> TRUE],
      [type |-> "number", total_value |-> 10, reliable |-> TRUE] }

\* TradingDB.get_daily_pnl: a figure, or the query raising.
DailyPnls ==
    { [status |-> "success", pnl |-> 0 - m] :
        m \in {0, 1000000, 5000000, 5500000, 6000000} }
      \cup { [status |-> "error"] }

Unread == [status |-> "unread"]

\* A balance read that trusts a fresh answer only.
get_balance_fresh_only(active, rd) ==
    IF ~active
    THEN [status |-> "account_inactive", total_balance |-> 0,
          available_balance |-> 0, reliable |-> FALSE]
    ELSE [status |-> rd.status, total_balance |-> rd.total_balance,
          available_balance |-> rd.available_balance,
          reliable |-> rd.status = "success"]

\* Account.get_balance: the broker's payload with status and reliable added;
\* an inactive account answers zeros without asking the broker.
get_balance(active, rd) ==
    IF ~active
    THEN [status |-> "account_inactive", total_balance |-> 0,
          available_balance |-> 0, reliable |-> FALSE]
    ELSE [status |-> rd.status, total_balance |-> rd.total_balance,
          available_balance |-> rd.available_balance,
          reliable |-> rd.status \in {"success", "cached"}]

\* Account.get_orderable_amount.
get_orderable_amount(active, rd) ==
    IF ~active
    THEN [status |-> "account_inactive", orderable_quantity |-> 0, reliable |-> FALSE]
    ELSE [status |-> rd.status, orderable_quantity |-> rd.orderable_quantity,
          reliable |-> rd.status = "success"]

\* Account.can_trade(amount).
can_trade(active, rd, amount) ==
    LET balance == get_balance(active, rd) IN
    IF ~active
    THEN [can_trade |-> FALSE, reason |-> "account_inactive", reliable |-> TRUE,
          balance_status |-> "account_inactive", available_balance |-> 0,
          required_amount |-> amount]
    ELSE IF ~balance.reliable
    THEN [can_trade |-> FALSE, reason |-> "unreliable_balance_data",
          reliable |-> FALSE, balance_status |-> balance.status,
          available_balance |-> balance.available_balance,
          required_amount |-> amount]
    ELSE [can_trade |-> balance.available_balance >= amount,
          reason |-> IF balance.available_balance >= amount
                     THEN "sufficient_balance" ELSE "insufficient_balance",
          reliable |-> TRUE, balance_status |-> balance.status,
          available_balance |-> balance.available_balance,
          required_amount |-> amount]

\* TradeOrder.get_estimated_value: a market order has no estimate.
get_estimated_value(quantity, price) ==
    IF price = None THEN 0 ELSE quantity * price[1]

\* _calculate_futures_quantity_with_leverage; StrategyConfig has no leverage
\* attribute, so leverage is 1.0.
_calculate_futures_quantity_with_leverage(balance, quote, strategy) ==
    IF balance.total_balance <= 0 THEN 1
    ELSE IF quote.price <= 0 THEN 1
    ELSE Max({1, (balance.total_balance * strategy.max_position_ratio)
                   \div (100 * quote.price * quote.multiplier)})

\* _get_default_quantity, the stock branch: a tenth of the orderable quantity,
\* at least 1; 1 when nothing is orderable.
_get_default_quantity(orderable) ==
    IF orderable.orderable_quantity > 0
    THEN Max({1, orderable.orderable_quantity \div 10})
    ELSE 1


\* _calculate_actual_quantity: does the signal need the account's default size?
NeedsDefaultQuantity(account_type, action, original_quantity, current_qty) ==
    /\ original_quantity \in {0, 0 - 1}
    /\ \/ action = "SELL" /\ current_qty = 0 /\ account_type = "FUTURES"
       \/ action = "BUY" /\ current_qty >= 0

QuantityResult(success, quantity, message, is_full_trade) ==
    [success |-> success, quantity |-> quantity, message |-> message,
     is_full_trade |-> is_full_trade]

\* A size resolution that gives every full-trade signal the default size.
default_size_for_full_trade(account_type, action, original_quantity, current_qty, default_quantity) ==
    IF original_quantity \notin {0, 0 - 1}
    THEN IF original_quantity > 0
         THEN QuantityResult(TRUE, original_quantity, "specified", FALSE)
         ELSE QuantityResult(FALSE, 0, "invalid_quantity", FALSE)
    ELSE IF default_quantity <= 0
    THEN QuantityResult(FALSE, 0, "zero_or_negative", TRUE)
    ELSE QuantityResult(TRUE, default_quantity, "calculated", TRUE)

\* _calculate_actual_quantity; default_quantity is _get_default_quantity's
\* value, used where NeedsDefaultQuantity holds.
_calculate_actual_quantity(account_type, action, original_quantity, current_qty, default_quantity) ==
    IF original_quantity \notin {0, 0 - 1}
    THEN IF original_quantity > 0
         THEN QuantityResult(TRUE, original_quantity, "specified", FALSE)
         ELSE QuantityResult(FALSE, 0, "invalid_quantity", FALSE)
    ELSE IF action = "SELL" /\ current_qty < 0
    THEN QuantityResult(FALSE, 0, "already_short", TRUE)
    ELSE IF action = "SELL" /\ current_qty = 0 /\ account_type # "FUTURES"
    THEN QuantityResult(FALSE, 0, "no_position_to_close", TRUE)
    ELSE LET actual_quantity ==
                 IF action = "SELL" /\ current_qty > 0 THEN current_qty
                 ELSE IF action = "BUY" /\ current_qty < 0 THEN Abs(current_qty)
                 ELSE default_quantity
         IN IF actual_quantity <= 0
            THEN QuantityResult(FALSE, 0, "zero_or_negative", TRUE)
            ELSE QuantityResult(TRUE, actual_quantity, "calculated", TRUE)

\* An inference that takes an order for exactly the held quantity for a
\* reversal.
reverse_from_equal(current_qty, signal_action, signal_qty) ==
    IF current_qty = 0 THEN "ENTRY"
    ELSE IF current_qty > 0
    THEN IF signal_action = "SELL"
         THEN IF signal_qty >= current_qty THEN "REVERSE" ELSE "EXIT"
         ELSE "ENTRY"
    ELSE IF signal_action = "BUY"
         THEN IF signal_qty >= Abs(current_qty) THEN "REVERSE" ELSE "EXIT"
         ELSE "ENTRY"

\* PositionManager.calculate_transition_type.
calculate_transition_type(current_qty, target_action, target_qty) ==
    IF current_qty = 0 THEN "ENTRY"
    ELSE IF current_qty > 0
    THEN IF target_action = "SELL"
         THEN IF target_qty >= current_qty
              THEN IF target_qty > current_qty THEN "REVERSE" ELSE "EXIT"
              ELSE "EXIT"
         ELSE "ENTRY"
    ELSE IF target_action = "BUY"
         THEN IF target_qty >= Abs(current_qty)
              THEN IF target_qty > Abs(current_qty) THEN "REVERSE" ELSE "EXIT"
              ELSE "EXIT"
         ELSE "ENTRY"

\* _calculate_transition_type.
_calculate_transition_type(current_qty, signal_action, signal_qty) ==
    IF current_qty = 0 THEN "ENTRY"
    ELSE IF current_qty > 0
    THEN IF signal_action = "SELL"
         THEN IF signal_qty > current_qty THEN "REVERSE" ELSE "EXIT"
         ELSE "ENTRY"
    ELSE IF signal_action = "BUY"
         THEN IF signal_qty > Abs(current_qty) THEN "REVERSE" ELSE "EXIT"
         ELSE "ENTRY"

\* The active strategies configured on an account.
ActiveStrategiesOf(account_id) ==
    {n \in StrategyNames :
        Strategies[n].account_id = account_id /\ Strategies[n].is_active}

\* check_position_limit.  Comparing the dict that Account hands back with 0
\* raises, and the except branch refuses.  Ratios are compared in percent.
check_position_limit(portfolio_value, account_id, amount) ==
    IF portfolio_value.type = "dict"
    THEN [approved |-> FALSE, reason |-> "position_limit_check_error"]
    ELSE IF portfolio_value.total_value <= 0
    THEN [approved |-> FALSE, reason |-> "zero_portfolio_value"]
    ELSE LET max_ratio ==
                 Min({DefaultMaxRatio} \cup
                     {Strategies[n].max_position_ratio :
                        n \in ActiveStrategiesOf(account_id)})
             approved == 100 * amount <= max_ratio * portfolio_value.total_value
         IN [approved |-> approved,
             reason |-> IF approved THEN "position_limit_ok"
                        ELSE "position_limit_exceeded",
             max_ratio |-> max_ratio]

\* check_daily_loss_limit.  A failing P&L query lets the order through.
check_daily_loss_limit(account_id, daily_pnl) ==
    IF daily_pnl.status = "error"
    THEN [approved |-> TRUE, reason |-> "daily_loss_check_error_allow"]
    ELSE LET max_loss ==
                 Max({0 - DefaultMaxLoss} \cup
                     {0 - Strategies[n].max_daily_loss :
                        n \in ActiveStrategiesOf(account_id)})
             approved == daily_pnl.pnl > max_loss
         IN [approved |-> approved,
             reason |-> IF approved THEN "daily_loss_ok"
                        ELSE "daily_loss_limit_exceeded",
             max_loss |-> max_loss]

RiskResult(approved, reason, checks, details) ==
    [approved |-> approved, reason |-> reason, checks |-> checks,
     details |-> details]

\* _check_all_risks: the four checks in order, returning at the first that
\* fails.  checks holds the outcome of each check that ran.
_check_all_risks(active, account_id, estimated_amount, balance_read, portfolio_value, daily_pnl) ==
    IF ~active
    THEN RiskResult(FALSE, "account_inactive", << FALSE >>, Unread)
    ELSE
    LET trade_check == can_trade(active, balance_read, estimated_amount)
        balance_ok == estimated_amount > 0 => trade_check.can_trade
        position_check ==
            check_position_limit(portfolio_value, account_id, estimated_amount)
        daily_loss_check == check_daily_loss_limit(account_id, daily_pnl)
        checks1 == IF estimated_amount > 0
                   THEN << TRUE, trade_check.can_trade >> ELSE << TRUE >>
    IN IF ~balance_ok
       THEN RiskResult(FALSE, trade_check.reason, checks1, trade_check)
       ELSE IF ~position_check.approved
       THEN RiskResult(FALSE, "position_limit_exceeded",
                       Append(checks1, FALSE), position_check)
       ELSE IF ~daily_loss_check.approved
       THEN RiskResult(FALSE, "daily_loss_limit_exceeded",
                       checks1 \o << TRUE, FALSE >>, daily_loss_check)
       ELSE RiskResult(TRUE, "all_risk_checks_passed",
                       checks1 \o << TRUE, TRUE >>, Unread)

VARIABLES
    pc,             \* position of the request in flight
    order,          \* the TradeOrder being executed
    placed,         \* broker order calls of this request, in order
    last_poll,      \* what the latest order-status poll of this request returned
    elapsed,        \* wait_for_fill: time.time() - start_time
    timeout,        \* wait_for_fill: timeout_seconds
    last_status,    \* wait_for_fill: last_status
    cancelled,      \* the request was cancelled during the fill wait in progress
    current_position, \* _execute_reverse_position: current_position['quantity']
    exit_success,   \* _execute_reverse_position: exit_success
    exit_order_id,  \* _execute_reverse_position: exit_order_id
    entry_order_id, \* order id of the order being awaited
    result,         \* the value the handler returned
    signal,         \* the signal of the request in flight
    ctx,            \* execute_signal: what it has resolved and read so far
    http,           \* status code of the HTTP response
    emergency_stop, \* AutoTrader._emergency_stop
    se_emergency_stop, \* SignalExecutor._emergency_stop
    is_active,      \* Account.is_active of each loaded account
    now,            \* time.time() / datetime.now(), in seconds
    cache,          \* KisBroker._cache: cache_key -> (data, expires)
    reader,         \* each thread's call of _get_cached_or_fetch
    fetches,        \* number of fetch_func calls made so far
    fetched,        \* per cache key, the value of its latest successful fetch
    auth,           \* each KisAuth's cached token and expiry
    issued,         \* per account, the token requests sent to the broker
    caller,         \* each thread's call of get_valid_token
    pure_call       \* the latest _get_tr_id / status canonicalization call and its result

waitVars == << elapsed, timeout, last_status, cancelled >>
legVars == << current_position, exit_success, exit_order_id, entry_order_id >>
logVars == << placed, last_poll >>
orderVars == << order, logVars, waitVars, legVars >>
flagVars == << emergency_stop, se_emergency_stop, is_active >>
reqVars == << signal, ctx, http >>
cacheVars == << cache, reader, fetches, fetched >>
tokenVars == << auth, issued, caller >>
brokerVars == << now, cacheVars, tokenVars, pure_call >>
vars == << pc, orderVars, result, reqVars, flagVars, brokerVars >>

NoResult == [kind |-> "none"]

(***************************************************************************)
(* TradeOrder.to_broker_format: the order as handed to place_order.        *)
(***************************************************************************)
to_broker_format(o) ==
    [action |-> o.action, quantity |-> o.quantity, price |-> o.price]

(***************************************************************************)
(* place_order: one broker.buy / broker.sell call.  ok = FALSE is the call *)
(* raising; the order id of a successful call is its index in placed.      *)
(***************************************************************************)
BrokerCall(o, leg, ok) ==
    [action |-> o.action, quantity |-> o.quantity, price |-> o.price,
     leg |-> leg, ok |-> ok]

NextOrderId == Some(Len(placed) + 1)

(***************************************************************************)
(* The orders of the TradeOrder set: TradeOrder.__post_init__ refuses a    *)
(* quantity <= 0 and an action other than BUY / SELL.                      *)
(***************************************************************************)
TradeOrders ==
    [action : Actions, quantity : 1..MaxQty, price : Prices,
     transition_type : Transitions]

(***************************************************************************)
(* KisBroker's response cache (trading/kis_broker.py).  A cache key names  *)
(* an endpoint and the broker's account; what a fetch returns is told      *)
(* apart by the number of the fetch_func call that returned it (value) and *)
(* carries the time.time() its caller read before the call (stamp).        *)
(***************************************************************************)
Threads == {"t1", "t2"}
Endpoints == {"balance", "positions", "orderable"}
CacheAccounts == {"acc1"}
CacheKeys == [endpoint : Endpoints, account : CacheAccounts]
NoKey == [endpoint |-> "none", account |-> "none"]

\* The ttl argument of the _get_cached_or_fetch calls.
TTL(key) ==
    CASE key.endpoint = "balance" -> BalanceTTL
      [] key.endpoint = "positions" -> PositionsTTL
      [] key.endpoint = "orderable" -> OrderableTTL

Data(value, stamp, error) == [value |-> value, stamp |-> stamp, error |-> error]
Entry(data, expires) == [data |-> data, expires |-> expires]

NoRead == [kind |-> "none"]
ReturnedNone == [kind |-> "None"]
Returned(data, from_cache) == [kind |-> "data", data |-> data, from_cache |-> from_cache]

IdleReader ==
    [pc |-> "idle", key |-> NoKey, now |-> 0, prior |-> None, result |-> None,
     failed |-> FALSE, ret |-> NoRead, latest |-> 0]

(***************************************************************************)
(* KisAuth's token: the token file of an account (broker/auth.py and       *)
(* trading/kis_auth.py, shared by every KisAuth of the account) and the    *)
(* _cached_token / _cached_expiry of one KisAuth object                    *)
(* (shared/broker/kis_auth.py).  The clock stays within one calendar day.  *)
(***************************************************************************)
TokenAccounts == {"acc1", "acc2"}
TokenEntries == {"execute", "lambda_handler"}
NoToken == [token |-> None, expiry |-> 0]
NothingIssued == [count |-> 0, expiry |-> 0]
IdleCaller ==
    [pc |-> "idle", entry |-> "none", account |-> "none", missing |-> FALSE,
     seen |-> 0, alive |-> FALSE, sent |-> FALSE, ret |-> None]

NoCall == [kind |-> "none"]

Init ==
    /\ pc = "idle"
    /\ order = None
    /\ placed = << >>
    /\ last_poll = "EMPTY"
    /\ elapsed = 0
    /\ timeout = 0
    /\ last_status = "EMPTY"
    /\ cancelled = FALSE
    /\ current_position = None
    /\ exit_success = FALSE
    /\ exit_order_id = None
    /\ entry_order_id = None
    /\ result = NoResult
    /\ signal = None
    /\ ctx = None
    /\ http = None
    /\ emergency_stop = FALSE
    /\ se_emergency_stop = FALSE
    /\ is_active = [a \in AccountIds |-> Accounts[a].is_active]
    /\ now = 0
    /\ cache = [k \in CacheKeys |-> None]
    /\ reader = [t \in Threads |-> IdleReader]
    /\ fetches = 0
    /\ fetched = [k \in CacheKeys |-> 0]
    /\ auth = [a \in TokenAccounts |-> NoToken]
    /\ issued = [a \in TokenAccounts |-> NothingIssued]
    /\ caller = [t \in Threads |-> IdleCaller]
    /\ pure_call = NoCall


(***************************************************************************)
(* TradeExecutor._execute_trade_order and _execute_reverse_position.       *)
(***************************************************************************)

\* The return value of _execute_trade_order / _reverse_position_failed.
ExecutionResult(success, oid, exit_oid, filled, fill_info, error) ==
    [kind |-> "execution", success |-> success, order_id |-> oid,
     exit_order_id |-> exit_oid, filled |-> filled, fill_info |-> fill_info,
     error |-> error]

\* _reverse_position_failed(trade_id, error_msg, entry_order_id,
\* entry_fill_info, exit_order_id)
_reverse_position_failed(error_msg, entry_oid, entry_fill_info, exit_oid) ==
    ExecutionResult(FALSE, entry_oid, exit_oid, FALSE, entry_fill_info, error_msg)

\* _execute_trade_order is entered with a TradeOrder: the trade is saved and
\* the order dispatched on its transition type.
ExecuteTradeOrder(o) ==
    /\ pc = "idle"
    /\ pc' = IF o.transition_type = "REVERSE" THEN "rev_read" ELSE "te_place"
    /\ order' = o
    /\ placed' = << >>
    /\ last_poll' = "EMPTY"
    /\ result' = NoResult
    /\ UNCHANGED << waitVars, legVars, reqVars, flagVars, brokerVars >>

\* wait_for_fill is entered: start_time = time.time(), last_status = {}.
StartWait(oid, t) ==
    /\ entry_order_id' = oid
    /\ elapsed' = 0
    /\ timeout' = t
    /\ last_status' = "EMPTY"
    /\ cancelled' = FALSE

\* wait_for_fill has returned: its locals are dead.
EndWait ==
    /\ entry_order_id' = None
    /\ elapsed' = 0
    /\ timeout' = 0
    /\ last_status' = "EMPTY"
    /\ cancelled' = FALSE

\* execute_signal's view of _execute_trade_order's return value: the order id
\* and filled on success, a 'broker' error without them on failure.
WrapExecution(r) ==
    IF r.success
    THEN [kind |-> "signal", success |-> TRUE, order_id |-> r.order_id,
          error_type |-> "none", message |-> "executed", details |-> Unread,
          filled |-> r.filled]
    ELSE _error_result("broker", r.error, Unread)

\* An executor that, in place of returning r, stays where it is and goes
\* through the step again.
RetryPlacement(r) ==
    /\ pc' = pc
    /\ UNCHANGED << result, legVars, waitVars >>

\* _execute_trade_order returns r, to execute_signal when it was the caller.
Finish(r) ==
    /\ pc' = "done"
    /\ result' = IF ctx = None THEN r ELSE WrapExecution(r)
    /\ exit_order_id' = None
    /\ current_position' = None
    /\ exit_success' = FALSE
    /\ EndWait

\* The plain (ENTRY / EXIT) order: one place_order call.
PlaceSingle(ok) ==
    /\ pc = "te_place"
    /\ placed' = Append(placed, BrokerCall(to_broker_format(order), "single", ok))
    /\ IF ok
       THEN /\ pc' = "te_wait"
            /\ StartWait(NextOrderId, DefaultFillTimeout)
            /\ UNCHANGED << result, exit_order_id, current_position, exit_success >>
       ELSE Finish(ExecutionResult(FALSE, None, None, FALSE, "EMPTY",
                                   "place_failed"))
    /\ UNCHANGED << order, last_poll, reqVars, flagVars, brokerVars >>

\* _execute_reverse_position, step 1: the position is read again.  A flat
\* position skips the close leg (exit_success = True).
ExitOrder(q) ==
    [action |-> IF q > 0 THEN "SELL" ELSE "BUY", quantity |-> Abs(q),
     price |-> None]

ReverseReadPosition(q) ==
    /\ pc = "rev_read"
    /\ (ctx # None /\ ~is_active[ctx.account_id]) => q = 0
    /\ pc' = IF q # 0 THEN "rev_exit_place" ELSE "rev_entry_place"
    /\ current_position' = Some(q)
    /\ exit_success' = (q = 0)
    /\ UNCHANGED << order, logVars, waitVars, exit_order_id, entry_order_id,
                    result, reqVars, flagVars, brokerVars >>

\* Step 1, continued: the close order is placed at market and awaited for
\* up to 120 s.
ReversePlaceExit(ok) ==
    /\ pc = "rev_exit_place"
    /\ placed' = Append(placed, BrokerCall(ExitOrder(current_position[1]),
                                           "exit", ok))
    /\ IF ok
       THEN /\ pc' = "rev_exit_wait"
            /\ exit_order_id' = NextOrderId
            /\ StartWait(NextOrderId, ExitFillTimeout)
            /\ UNCHANGED << result, current_position, exit_success >>
       ELSE Finish(_reverse_position_failed("exit_place_failed", None,
                                            "EMPTY", None))
    /\ UNCHANGED << order, last_poll, reqVars, flagVars, brokerVars >>

\* Step 2: the entry order is trade_order.to_broker_format(), awaited for the
\* default 60 s.
ReversePlaceEntry(ok) ==
    /\ pc = "rev_entry_place"
    /\ exit_success
    /\ placed' = Append(placed, BrokerCall(to_broker_format(order), "entry", ok))
    /\ IF ok
       THEN /\ pc' = "rev_entry_wait"
            /\ StartWait(NextOrderId, DefaultFillTimeout)
            /\ UNCHANGED << result, exit_order_id, current_position, exit_success >>
       ELSE Finish(_reverse_position_failed("entry_place_failed", None,
                                            "EMPTY", exit_order_id))
    /\ UNCHANGED << order, last_poll, reqVars, flagVars, brokerVars >>

(***************************************************************************)
(* TradeExecutor.execute_signal, for an executor that holds a ConfigLoader *)
(* and the account the signal's token routes to.                           *)
(***************************************************************************)
Ctx0(strategy) ==
    [account_id |-> strategy.account_id, strategy |-> strategy.name,
     current_qty |-> None, quantity |-> 0, is_full_trade |-> FALSE,
     default_read |-> Unread, balance_read |-> Unread,
     portfolio_value |-> Unread, daily_pnl |-> Unread]

\* Steps 1-2: the strategy of the token; none is a 'validation' error.
ExecuteSignal(sig) ==
    /\ pc = "idle"
    /\ signal' = sig
    /\ LET strategy_config == get_strategy_by_token(sig.webhook_token) IN
       IF strategy_config = None
       THEN /\ pc' = "done"
            /\ result' = _error_result("validation", "strategy_not_found", Unread)
            /\ ctx' = None
       ELSE /\ pc' = "es_position"
            /\ result' = NoResult
            /\ ctx' = Ctx0(strategy_config[1])
    /\ UNCHANGED << orderVars, http, flagVars, brokerVars >>

\* Steps 3-4: the position is read (an inactive account reports none) and the
\* quantity resolved, unless it takes the account's default size.
ReadPosition(q) ==
    /\ pc = "es_position"
    /\ ~is_active[ctx.account_id] => q = 0
    /\ LET account_type == Accounts[ctx.account_id].type
           r == _calculate_actual_quantity(account_type, signal.action,
                                           signal.quantity, q, 0)
       IN IF NeedsDefaultQuantity(account_type, signal.action, signal.quantity, q)
          THEN /\ pc' = "es_default"
               /\ ctx' = [ctx EXCEPT !.current_qty = Some(q), !.is_full_trade = TRUE]
               /\ UNCHANGED result
          ELSE /\ ctx' = [ctx EXCEPT !.current_qty = Some(q),
                                     !.quantity = r.quantity,
                                     !.is_full_trade = r.is_full_trade]
               /\ IF r.success
                  THEN pc' = "es_risk" /\ UNCHANGED result
                  ELSE /\ pc' = "done"
                       /\ result' = _error_result("validation", r.message, r)
    /\ UNCHANGED << orderVars, signal, http, flagVars, brokerVars >>

\* Step 4, the default size of a stock account: a read of the orderable amount.
DefaultQuantityStock(rd) ==
    /\ pc = "es_default"
    /\ Accounts[ctx.account_id].type = "STOCK"
    /\ ~is_active[ctx.account_id] => rd = CHOOSE x \in OrderableReads : TRUE
    /\ LET orderable == get_orderable_amount(is_active[ctx.account_id], rd)
           r == _calculate_actual_quantity("STOCK", signal.action, signal.quantity,
                                           ctx.current_qty[1],
                                           _get_default_quantity(orderable))
       IN /\ ctx' = [ctx EXCEPT !.quantity = r.quantity,
                                !.default_read = [status |-> orderable.status]]
          /\ pc' = "es_risk"
    /\ UNCHANGED << orderVars, result, signal, http, flagVars, brokerVars >>

\* Step 4, the default size of a futures account: balance, price, multiplier.
DefaultQuantityFutures(rd, quote) ==
    /\ pc = "es_default"
    /\ Accounts[ctx.account_id].type = "FUTURES"
    /\ ~is_active[ctx.account_id] => rd = CHOOSE x \in BalanceReads : TRUE
    /\ LET balance == get_balance(is_active[ctx.account_id], rd)
           r == _calculate_actual_quantity("FUTURES", signal.action, signal.quantity,
                    ctx.current_qty[1],
                    _calculate_futures_quantity_with_leverage(
                        balance, quote, Strategies[ctx.strategy]))
       IN /\ ctx' = [ctx EXCEPT !.quantity = r.quantity,
                                !.default_read = [status |-> balance.status]]
          /\ pc' = "es_risk"
    /\ UNCHANGED << orderVars, result, signal, http, flagVars, brokerVars >>

\* Steps 5-8: the transition type, the TradeOrder, the risk gate with the
\* reads each check makes (a check that is not reached reads nothing), and
\* either a 'risk' error or the hand-over to _execute_trade_order.
CheckAllRisks(balance_read, portfolio_value, daily_pnl) ==
    /\ pc = "es_risk"
    /\ LET active == is_active[ctx.account_id]
           estimated_amount == get_estimated_value(ctx.quantity, signal.price)
           balance_checked == active /\ estimated_amount > 0
           position_checked ==
               /\ active
               /\ balance_checked =>
                    can_trade(active, balance_read, estimated_amount).can_trade
           daily_checked ==
               /\ position_checked
               /\ check_position_limit(portfolio_value, ctx.account_id,
                                       estimated_amount).approved
           risk_check == _check_all_risks(active, ctx.account_id, estimated_amount,
                                          balance_read, portfolio_value, daily_pnl)
           trade_order ==
               [action |-> signal.action, quantity |-> ctx.quantity,
                price |-> signal.price,
                transition_type |->
                    _calculate_transition_type(ctx.current_qty[1], signal.action,
                                               ctx.quantity)]
       IN /\ balance_read \in (IF balance_checked THEN BalanceReads ELSE {Unread})
          /\ portfolio_value \in (IF position_checked THEN PortfolioReads ELSE {Unread})
          /\ daily_pnl \in (IF daily_checked THEN DailyPnls ELSE {Unread})
          /\ ctx' = [ctx EXCEPT !.balance_read = balance_read,
                                !.portfolio_value = portfolio_value,
                                !.daily_pnl = daily_pnl]
          /\ IF risk_check.approved
             THEN /\ pc' = "es_execute"
                  /\ order' = trade_order
                  /\ UNCHANGED result
             ELSE /\ pc' = "done"
                  /\ result' = _error_result("risk", risk_check.reason, risk_check)
                  /\ UNCHANGED order
    /\ UNCHANGED << logVars, waitVars, legVars, signal, http, flagVars, brokerVars >>

\* Step 8: _execute_trade_order is called with the approved order; the trade
\* is saved and the order dispatched on its transition type.  Of what the
\* pipeline read, order execution is followed with the size resolution only.
StartExecution ==
    /\ pc = "es_execute"
    /\ pc' = IF order.transition_type = "REVERSE" THEN "rev_read" ELSE "te_place"
    /\ ctx' = [Ctx0(Strategies[ctx.strategy]) EXCEPT
                 !.is_full_trade = ctx.is_full_trade,
                 !.default_read = ctx.default_read]
    /\ UNCHANGED << orderVars, result, signal, http, flagVars, brokerVars >>

(***************************************************************************)
(* TradeExecutor.wait_for_fill.  One round: sleep 1 s, poll, return on a   *)
(* terminal status, else sleep 4 s (5 s when the poll raised).             *)
(***************************************************************************)
WaitPcs == {"te_wait", "rev_exit_wait", "rev_entry_wait"}

\* A wait that also takes a rejected order for a filled one.
IsFilledOrRejected(st) == st \in {"FILLED", "REJECTED"}

IsFilled(st) == st = "FILLED"
IsFailed(st) == st \in {"FAILED", "REJECTED", "CANCELLED"}

\* A round of a loop that never sleeps.
NoSleep(st) == 0

\* The time one round of the loop takes when its poll was not terminal:
\* sleep(1), the poll, then sleep(4), or sleep(5) when the poll raised.
RoundTime(st) ==
    PollDelay + (IF st = "NONE" THEN PollErrorPause ELSE PollPause)

\* The client of the request in flight disconnects while the request waits
\* for a fill.  Neither fill-wait loop is handed the request, so nothing in
\* the program changes.
AllWaitPcs == WaitPcs \cup {"se_wait"}

Cancel ==
    /\ pc \in AllWaitPcs
    /\ ~cancelled
    /\ cancelled' = TRUE
    /\ UNCHANGED << pc, order, logVars, elapsed, timeout, last_status, legVars,
                    result, reqVars, flagVars, brokerVars >>

\* What the caller does with wait_for_fill's (filled, fill_info).
AfterWait(filled, fill_info) ==
    CASE pc = "te_wait" ->
           IF fill_info = "NONE"
           THEN \* fill_info.get on None raises: the except branch
                Finish(ExecutionResult(FALSE, None, None, FALSE, "EMPTY",
                                       "exception"))
           ELSE Finish(ExecutionResult(filled, entry_order_id, None, filled,
                                       fill_info,
                                       IF filled THEN "none" ELSE "not_filled"))
      [] pc = "rev_exit_wait" ->
           IF filled
           THEN /\ pc' = "rev_entry_place"
                /\ exit_success' = filled
                /\ EndWait
                /\ UNCHANGED << result, exit_order_id, current_position >>
           ELSE Finish(_reverse_position_failed("exit_failed", exit_order_id,
                                                fill_info, None))
      [] pc = "rev_entry_wait" ->
           IF filled
           THEN Finish(ExecutionResult(TRUE, entry_order_id, exit_order_id,
                                       TRUE, fill_info, "none"))
           ELSE Finish(_reverse_position_failed("entry_failed", entry_order_id,
                                                fill_info, exit_order_id))

Poll(st) ==
    /\ pc \in WaitPcs
    /\ elapsed < timeout
    /\ last_poll' = st
    /\ IF st # "NONE" /\ (IsFilled(st) \/ IsFailed(st))
       THEN AfterWait(IsFilled(st), st)
       ELSE /\ last_status' = st
            /\ elapsed' = elapsed + RoundTime(st)
            /\ UNCHANGED << pc, timeout, cancelled, legVars, result >>
    /\ UNCHANGED << order, placed, reqVars, flagVars, brokerVars >>

WaitTimeout ==
    /\ pc \in WaitPcs
    /\ elapsed >= timeout
    /\ AfterWait(FALSE, last_status)
    /\ UNCHANGED << order, logVars, reqVars, flagVars, brokerVars >>

\* The next request may start.
Reset ==
    /\ pc = "done"
    /\ pc' = "idle"
    /\ order' = None
    /\ placed' = << >>
    /\ last_poll' = "EMPTY"
    /\ result' = NoResult
    /\ signal' = None
    /\ ctx' = None
    /\ http' = None
    /\ UNCHANGED << waitVars, legVars, flagVars, brokerVars >>

NextOrder ==
    \/ \E o \in TradeOrders : ExecuteTradeOrder(o)
    \/ \E ok \in BOOLEAN : PlaceSingle(ok)
    \/ \E q \in Positions : ReverseReadPosition(q)
    \/ \E ok \in BOOLEAN : ReversePlaceExit(ok)
    \/ \E ok \in BOOLEAN : ReversePlaceEntry(ok)
    \/ \E st \in PollOutcomes : Poll(st)
    \/ WaitTimeout
    \/ Cancel
    \/ Reset

SpecOrder == Init /\ [][NextOrder]_vars

\* execute_signal from the signal to its result, order execution included.
NextExec ==
    \/ \E sig \in SignalData : ExecuteSignal(sig)
    \/ \E q \in Positions : ReadPosition(q)
    \/ \E rd \in OrderableReads : DefaultQuantityStock(rd)
    \/ \E rd \in BalanceReads, quote \in FuturesQuotes : DefaultQuantityFutures(rd, quote)
    \/ \E b \in BalanceReads \cup {Unread}, pv \in PortfolioReads \cup {Unread},
          pnl \in DailyPnls \cup {Unread} : CheckAllRisks(b, pv, pnl)
    \/ StartExecution
    \/ \E ok \in BOOLEAN : PlaceSingle(ok)
    \/ \E q \in Positions : ReverseReadPosition(q)
    \/ \E ok \in BOOLEAN : ReversePlaceExit(ok)
    \/ \E ok \in BOOLEAN : ReversePlaceEntry(ok)
    \/ \E st \in PollOutcomes : Poll(st)
    \/ WaitTimeout
    \/ Reset

SpecExec == Init /\ [][NextExec]_vars

(***************************************************************************)
(* The webhook of SignalExecutor: receive_signal (src/api/webhook.py) and  *)
(* SignalExecutor.execute.  It reads strategies and accounts from the      *)
(* configuration; an account's is_active is the configured one.            *)
(***************************************************************************)
WebhookPayloads ==
    [symbol : {"", "005930"}, action : {"BUY", "SELL", "buy", "HOLD"},
     quantity : {0 - 1} \cup (0..MaxQty), webhook_token : Tokens \cup {" tokA "}]

\* str.upper and str.strip on the strings a payload carries.
Upper(str) == IF str = "buy" THEN "BUY" ELSE str
Strip(str) == IF str = " tokA " THEN "tokA" ELSE str

\* Signal.from_webhook with Signal.__post_init__.
from_webhook(payload) ==
    [symbol |-> Upper(Strip(payload.symbol)), action |-> Upper(Strip(payload.action)),
     quantity |-> payload.quantity, webhook_token |-> Strip(payload.webhook_token)]

\* Signal.validate: the first error, "ok" when there is none.
validate(sig) ==
    IF sig.symbol = "" THEN "symbol_required"
    ELSE IF sig.action \notin {"BUY", "SELL"} THEN "invalid_action"
    ELSE IF sig.quantity <= 0 THEN "invalid_quantity"
    ELSE IF sig.webhook_token = "" THEN "token_required"
    ELSE "ok"

\* SignalExecutor._route_signal: the account of the token's strategy; None
\* when there is no such strategy or it is inactive.
_route_signal(sig) ==
    LET strategy == get_strategy_by_token(sig.webhook_token) IN
    IF strategy = None THEN None
    ELSE IF ~strategy[1].is_active THEN None
    ELSE Some(strategy[1].account_id)

\* Is the executor stopped?
IsStopped(flag) == flag

\* ExecutionResult.ok / ExecutionResult.fail.
ExecutionOk(order_id) ==
    [kind |-> "ExecutionResult", success |-> TRUE, order_id |-> order_id,
     error |-> "none", filled |-> TRUE]
ExecutionFail(error, order_id) ==
    [kind |-> "ExecutionResult", success |-> FALSE, order_id |-> order_id,
     error |-> error, filled |-> FALSE]

\* receive_signal: 200 for a successful result; the HTTPException(400) it
\* raises for a failed one is caught by its own `except Exception` and
\* becomes a 500.
ReceiveSignalStatus(r) == IF r.success THEN Some(200) ELSE Some(500)

Request(entry, sig) == [entry |-> entry] @@ sig

\* execute returns r and receive_signal answers.
SEReturn(r) ==
    /\ pc' = "done"
    /\ result' = r
    /\ http' = ReceiveSignalStatus(r)
    /\ EndWait

\* execute up to the broker call.
Execute(payload) ==
    /\ pc = "idle"
    /\ LET sig == from_webhook(payload)
           account == _route_signal(sig)
       IN /\ signal' = Request("execute", sig)
          /\ IF IsStopped(se_emergency_stop)
             THEN SEReturn(ExecutionFail("Emergency stop is active", None))
                  /\ ctx' = None
             ELSE IF validate(sig) # "ok"
             THEN SEReturn(ExecutionFail(validate(sig), None)) /\ ctx' = None
             ELSE IF account = None
             THEN SEReturn(ExecutionFail("Account not found", None)) /\ ctx' = None
             ELSE IF ~Accounts[account[1]].is_active
             THEN SEReturn(ExecutionFail("Account is inactive", None)) /\ ctx' = None
             ELSE /\ pc' = "se_place"
                  /\ ctx' = [account_id |-> account[1]]
                  /\ UNCHANGED << result, http, waitVars, entry_order_id >>
    /\ UNCHANGED << order, logVars, current_position, exit_success,
                    exit_order_id, flagVars, brokerVars >>

\* The order of a signal: broker.buy / broker.sell at market.
MarketOrder(sig) == [action |-> sig.action, quantity |-> sig.quantity, price |-> None]

\* execute: the broker call; a call that raises ends in ExecutionResult.fail.
SEPlace(ok) ==
    /\ pc = "se_place"
    /\ placed' = Append(placed, BrokerCall(MarketOrder(signal), "single", ok))
    /\ IF ok
       THEN /\ pc' = "se_wait"
            /\ StartWait(NextOrderId, SEFillTimeout)
            /\ UNCHANGED << result, http >>
       ELSE SEReturn(ExecutionFail("broker_error", None))
    /\ UNCHANGED << order, last_poll, current_position, exit_success,
                    exit_order_id, signal, ctx, flagVars, brokerVars >>

\* SignalExecutor._wait_for_fill: poll, return on a terminal status, else
\* sleep 2 s (also when the poll raised).
SEPoll(st) ==
    /\ pc = "se_wait"
    /\ elapsed < timeout
    /\ last_poll' = st
    /\ IF IsFilled(st)
       THEN SEReturn(ExecutionOk(entry_order_id))
       ELSE IF IsFailed(st)
       THEN SEReturn(ExecutionFail("Fill timeout", entry_order_id))
       ELSE /\ elapsed' = elapsed + SEPollPause
            /\ UNCHANGED << pc, result, http, timeout, last_status, cancelled,
                            entry_order_id >>
    /\ UNCHANGED << order, placed, current_position, exit_success,
                    exit_order_id, signal, ctx, flagVars, brokerVars >>

SEWaitTimeout ==
    /\ pc = "se_wait"
    /\ elapsed >= timeout
    /\ SEReturn(ExecutionFail("Fill timeout", entry_order_id))
    /\ UNCHANGED << order, logVars, current_position, exit_success,
                    exit_order_id, signal, ctx, flagVars, brokerVars >>

\* SignalExecutor.emergency_stop and resume (the admin endpoints).
SEEmergencyStop ==
    /\ se_emergency_stop' = TRUE
    /\ UNCHANGED << pc, orderVars, result, reqVars, emergency_stop, is_active, brokerVars >>

SEResume ==
    /\ se_emergency_stop' = FALSE
    /\ UNCHANGED << pc, orderVars, result, reqVars, emergency_stop, is_active, brokerVars >>

(***************************************************************************)
(* The Lambda webhook: lambda_handler (functions/webhook/handler.py).  Its *)
(* accounts come from ACCOUNTS_CONFIG, each with its own webhook_token.    *)
(* Its Signal (shared.models.signal) is taken to be the Signal of          *)
(* src/models/signal.py, whose from_webhook and validate it calls.         *)
(***************************************************************************)
SecretAccounts ==
    [a \in AccountIds |->
       [id |-> a,
        webhook_token |-> CASE a = "acc1" -> "tokA"
                            [] a = "acc2" -> "tokC"
                            [] a = "acc3" -> "tokD",
        is_active |-> Accounts[a].is_active]]

\* A lookup that hands back some account whatever the token.
get_account_ignoring_token(webhook_token) ==
    Some(SecretAccounts[CHOOSE a \in AccountIds : SecretAccounts[a].is_active])

\* SecretLoader.get_account_by_token: the account whose webhook_token is the
\* given one, None when there is none.
get_account_by_token(webhook_token) ==
    IF \E a \in AccountIds : SecretAccounts[a].webhook_token = webhook_token
    THEN Some(SecretAccounts[CHOOSE a \in AccountIds :
                               SecretAccounts[a].webhook_token = webhook_token])
    ELSE None

LambdaResponse(status, order_id) ==
    [kind |-> "lambda", success |-> status = 200, order_id |-> order_id]

\* lambda_handler up to the broker call: 400 for an invalid signal, 401 for
\* a token of no account, 403 for an inactive account.
LambdaHandler(payload) ==
    /\ pc = "idle"
    /\ LET sig == from_webhook(payload)
           account == get_account_by_token(sig.webhook_token)
           status == IF validate(sig) # "ok" THEN 400
                     ELSE IF account = None THEN 401
                     ELSE IF ~account[1].is_active THEN 403
                     ELSE 200
       IN /\ signal' = Request("lambda_handler", sig)
          /\ IF status # 200
             THEN /\ pc' = "done"
                  /\ http' = Some(status)
                  /\ result' = LambdaResponse(status, None)
                  /\ ctx' = None
             ELSE /\ pc' = "la_place"
                  /\ ctx' = [account_id |-> account[1].id]
                  /\ UNCHANGED << result, http >>
    /\ UNCHANGED << orderVars, flagVars, brokerVars >>

\* lambda_handler: the broker call and the answer, 200 with the order id once
\* the order is placed, 500 when the call raised.
LambdaPlace(ok) ==
    /\ pc = "la_place"
    /\ placed' = Append(placed, BrokerCall(MarketOrder(signal), "single", ok))
    /\ pc' = "done"
    /\ http' = IF ok THEN Some(200) ELSE Some(500)
    /\ result' = LambdaResponse(IF ok THEN 200 ELSE 500,
                                IF ok THEN NextOrderId ELSE None)
    /\ UNCHANGED << order, last_poll, waitVars, legVars, signal, ctx, flagVars, brokerVars >>

(***************************************************************************)
(* AutoTrader.process_signal.  Its TradeExecutor is built without a        *)
(* ConfigLoader (TradeExecutor(self.db)), so execute_signal answers every  *)
(* routed signal with a 'system' error before it reads anything.           *)
(***************************************************************************)
AutoTraderPayloads ==
    [strategy : {"", "s1"}, symbol : {"", "005930"},
     action : {"BUY", "SELL", "buy", "HOLD"},
     quantity : {0 - 2, 0 - 1, 0} \cup (1..MaxQty), webhook_token : Tokens]

\* TradeSignal.from_webhook_payload with __post_init__ raises on an action
\* other than BUY / SELL and on a quantity below -1.
TradeSignalRaises(payload) ==
    Upper(payload.action) \notin {"BUY", "SELL"} \/ payload.quantity < 0 - 1

\* TradeSignal.is_valid, for a signal that was constructed.
is_valid(payload) == payload.strategy # "" /\ payload.symbol # ""

Routing(success, account_id, message) ==
    [success |-> success, account_id |-> account_id, message |-> message]

\* AutoTrader._route_signal_to_account.
_route_signal_to_account(webhook_token, active) ==
    LET strategy_config == get_strategy_by_token(webhook_token) IN
    IF webhook_token = "" THEN Routing(FALSE, None, "no_webhook_token")
    ELSE IF strategy_config = None THEN Routing(FALSE, None, "strategy_not_found")
    ELSE IF ~strategy_config[1].is_active
    THEN Routing(FALSE, Some(strategy_config[1].account_id), "strategy_inactive")
    ELSE IF ~active[strategy_config[1].account_id]
    THEN Routing(FALSE, Some(strategy_config[1].account_id), "account_inactive")
    ELSE Routing(TRUE, Some(strategy_config[1].account_id), "routed")

ProcessResult(success, error_type, account_id) ==
    [kind |-> "process_signal", success |-> success, error_type |-> error_type,
     account_id |-> account_id]

ProcessSignal(payload) ==
    /\ pc = "idle"
    /\ pc' = "done"
    /\ signal' = Request("process_signal", payload)
    /\ LET routing == _route_signal_to_account(payload.webhook_token, is_active) IN
       IF IsStopped(emergency_stop)
       THEN result' = ProcessResult(FALSE, "emergency_stop", None) /\ ctx' = None
       ELSE IF TradeSignalRaises(payload)
       THEN result' = ProcessResult(FALSE, "system", None) /\ ctx' = None
       ELSE IF ~is_valid(payload)
       THEN result' = ProcessResult(FALSE, "validation", None) /\ ctx' = None
       ELSE IF ~routing.success
       THEN result' = ProcessResult(FALSE, "routing", routing.account_id)
            /\ ctx' = None
       ELSE /\ result' = ProcessResult(FALSE, "system", routing.account_id)
            /\ ctx' = [account_id |-> routing.account_id[1]]
    /\ UNCHANGED << orderVars, http, flagVars, brokerVars >>

\* AutoTrader.emergency_stop_all: the flag is set, every account deactivated.
EmergencyStopAll ==
    /\ emergency_stop' = TRUE
    /\ is_active' = [a \in AccountIds |-> FALSE]
    /\ UNCHANGED << pc, orderVars, result, reqVars, se_emergency_stop, brokerVars >>

\* AutoTrader.resume_trading: the flag is cleared, the accounts configured
\* active are reactivated.
ResumeTrading ==
    /\ emergency_stop' = FALSE
    /\ is_active' = [a \in AccountIds |-> Accounts[a].is_active \/ is_active[a]]
    /\ UNCHANGED << pc, orderVars, result, reqVars, se_emergency_stop, brokerVars >>

\* The three webhooks and the admin operations.
NextEntry ==
    \/ \E payload \in WebhookPayloads : Execute(payload)
    \/ \E ok \in BOOLEAN : SEPlace(ok)
    \/ \E st \in PollOutcomes : SEPoll(st)
    \/ SEWaitTimeout
    \/ SEEmergencyStop
    \/ SEResume
    \/ \E payload \in WebhookPayloads : LambdaHandler(payload)
    \/ \E ok \in BOOLEAN : LambdaPlace(ok)
    \/ \E payload \in AutoTraderPayloads : ProcessSignal(payload)
    \/ EmergencyStopAll
    \/ ResumeTrading
    \/ Cancel
    \/ Reset

SpecEntry == Init /\ [][NextEntry]_vars

(***************************************************************************)
(* Order execution and the webhooks together, with the handler's thread    *)
(* running on: a fill-wait loop that can make its next poll, or can see    *)
(* that its time is up, eventually does.  Every broker call of a round     *)
(* returns or raises (requests' timeout=30 in KisBroker._call_kis_api).    *)
(***************************************************************************)
NextWait ==
    \/ \E o \in TradeOrders : ExecuteTradeOrder(o)
    \/ \E ok \in BOOLEAN : PlaceSingle(ok)
    \/ \E q \in Positions : ReverseReadPosition(q)
    \/ \E ok \in BOOLEAN : ReversePlaceExit(ok)
    \/ \E ok \in BOOLEAN : ReversePlaceEntry(ok)
    \/ \E st \in PollOutcomes : Poll(st)
    \/ WaitTimeout
    \/ \E payload \in WebhookPayloads : Execute(payload)
    \/ \E ok \in BOOLEAN : SEPlace(ok)
    \/ \E st \in PollOutcomes : SEPoll(st)
    \/ SEWaitTimeout
    \/ Cancel
    \/ Reset

WaitFairness ==
    /\ WF_vars(\E st \in PollOutcomes : Poll(st))
    /\ WF_vars(WaitTimeout)
    /\ WF_vars(\E st \in PollOutcomes : SEPoll(st))
    /\ WF_vars(SEWaitTimeout)

SpecWait == Init /\ [][NextWait]_vars /\ WaitFairness

(***************************************************************************)
(* AutoTrader.process_signal over a TradeExecutor that holds the           *)
(* configuration: the emergency gate is read once, at the head of          *)
(* process_signal; TradeExecutor has no reference to the flag.             *)
(* emergency_stop_all may be called at any time.                           *)
(***************************************************************************)
ProcessRoutedSignal(sig) ==
    IF IsStopped(emergency_stop)
    THEN /\ pc = "idle"
         /\ pc' = "done"
         /\ signal' = sig
         /\ result' = ProcessResult(FALSE, "emergency_stop", None)
         /\ ctx' = None
         /\ UNCHANGED << orderVars, http, flagVars, brokerVars >>
    ELSE ExecuteSignal(sig)

NextStop ==
    \/ \E sig \in SignalData : ProcessRoutedSignal(sig)
    \/ EmergencyStopAll
    \/ \E q \in Positions : ReadPosition(q)
    \/ \E rd \in OrderableReads : DefaultQuantityStock(rd)
    \/ \E rd \in BalanceReads, quote \in FuturesQuotes : DefaultQuantityFutures(rd, quote)
    \/ \E b \in BalanceReads \cup {Unread}, pv \in PortfolioReads \cup {Unread},
          pnl \in DailyPnls \cup {Unread} : CheckAllRisks(b, pv, pnl)
    \/ StartExecution
    \/ \E ok \in BOOLEAN : PlaceSingle(ok)
    \/ \E q \in Positions : ReverseReadPosition(q)
    \/ \E ok \in BOOLEAN : ReversePlaceExit(ok)
    \/ \E ok \in BOOLEAN : ReversePlaceEntry(ok)
    \/ \E st \in PollOutcomes : Poll(st)
    \/ WaitTimeout
    \/ Reset

SpecStop == Init /\ [][NextStop]_vars

(***************************************************************************)
(* KisBroker._get_cached_or_fetch, called by get_balance, get_positions    *)
(* and get_orderable_amount from two threads.  Nothing in the class takes  *)
(* a lock; a step is what one thread does between two broker calls.        *)
(***************************************************************************)
\* self._cache[cache_key] = (result, now + ttl): one tuple, one assignment.
\* This variant overwrites the data of an entry and leaves its expiry.
StoreDataOnly(c, key, data, expires) ==
    [c EXCEPT ![key] = IF c[key] = None THEN Some(Entry(data, expires))
                       ELSE Some(Entry(data, c[key][1].expires))]

StoreEntry(c, key, data, expires) == [c EXCEPT ![key] = Some(Entry(data, expires))]

\* now = time.time(); the entry of the key is returned while now < expires,
\* otherwise the thread goes on to call fetch_func.
ReadCache(t, key) ==
    /\ reader[t].pc = "idle"
    /\ LET e == cache[key]
           hit == e # None /\ now < e[1].expires
       IN reader' = [reader EXCEPT ![t] =
                       [pc |-> IF hit THEN "idle" ELSE "fetch",
                        key |-> key, now |-> IF hit THEN 0 ELSE now, prior |-> e,
                        result |-> None,
                        failed |-> FALSE,
                        ret |-> IF hit THEN Returned(e[1].data, TRUE) ELSE NoRead,
                        latest |-> fetched[key]]]
    /\ UNCHANGED << pc, orderVars, result, reqVars, flagVars, now, cache, fetches,
                    fetched, tokenVars, pure_call >>

\* _stock_balance catches a failed API call and returns a zeroed balance with
\* an 'error' key; every other fetch function lets the exception out.
SwallowsFailure(key) ==
    key.endpoint = "balance" /\ Accounts[key.account].type = "STOCK"

\* fetch_func(): the broker call.  A call that raises leaves
\* _get_cached_or_fetch; get_balance / get_positions / get_orderable_amount
\* log it and return None.
Fetch(t, ok) ==
    /\ reader[t].pc = "fetch"
    /\ fetches < MaxFetches
    /\ fetches' = fetches + 1
    /\ LET key == reader[t].key IN
       IF ok
       THEN /\ fetched' = [fetched EXCEPT ![key] = fetches + 1]
            /\ reader' = [reader EXCEPT ![t].pc = "store",
                            ![t].result = Some(Data(fetches + 1, reader[t].now, FALSE))]
       ELSE /\ UNCHANGED fetched
            /\ IF SwallowsFailure(key)
               THEN reader' = [reader EXCEPT ![t].pc = "store", ![t].failed = TRUE,
                                 ![t].result = Some(Data(0, reader[t].now, TRUE))]
               ELSE reader' = [reader EXCEPT ![t].pc = "idle", ![t].failed = TRUE,
                                 ![t].ret = ReturnedNone, ![t].now = 0,
                                 ![t].latest = fetched[key]]
    /\ UNCHANGED << pc, orderVars, result, reqVars, flagVars, now, cache,
                    tokenVars, pure_call >>

\* self._cache[cache_key] = (result, now + ttl); return result.
Store(t) ==
    /\ reader[t].pc = "store"
    /\ LET key == reader[t].key IN
       /\ cache' = StoreEntry(cache, key, reader[t].result[1], reader[t].now + TTL(key))
       /\ reader' = [reader EXCEPT ![t].pc = "idle", ![t].now = 0,
                       ![t].result = None,
                       ![t].prior = IF reader[t].failed THEN reader[t].prior ELSE None,
                       ![t].ret = Returned(reader[t].result[1], FALSE),
                       ![t].latest = fetched[key]]
    /\ UNCHANGED << pc, orderVars, result, reqVars, flagVars, now, fetches, fetched,
                    tokenVars, pure_call >>

\* Time passes.
Tick ==
    /\ now < MaxClock
    /\ now' = now + ClockStep
    /\ UNCHANGED << pc, orderVars, result, reqVars, flagVars, cacheVars, tokenVars,
                    pure_call >>

NextCache ==
    \/ \E t \in Threads, key \in CacheKeys : ReadCache(t, key)
    \/ \E t \in Threads, ok \in BOOLEAN : Fetch(t, ok)
    \/ \E t \in Threads : Store(t)
    \/ Tick

SpecCache == Init /\ [][NextCache]_vars

(***************************************************************************)
(* KisAuth.get_valid_token, called from two threads or invocations.  The   *)
(* broker of SignalExecutor (entry "execute") keeps the token in the       *)
(* account's token file; lambda_handler builds a new KisBroker, and with   *)
(* it a new KisAuth whose _cached_token is None, for every request.        *)
(***************************************************************************)
\* _load_saved_token / self._cached_token: what the caller finds cached.
CachedToken(entry, account) == IF entry = "lambda_handler" THEN NoToken ELSE auth[account]

\* _is_token_valid_by_time: exp_dt > now_dt.
TokenValid(tok) == tok.token # None /\ tok.expiry > now

\* get_valid_token up to the token request: a cached token whose expiry is in
\* the future is returned.
GetValidToken(t, entry, account) ==
    /\ caller[t].pc = "idle"
    /\ LET tok == CachedToken(entry, account) IN
       caller' = [caller EXCEPT ![t] =
                    [pc |-> IF TokenValid(tok) THEN "idle" ELSE "request",
                     entry |-> entry, account |-> account,
                     missing |-> ~TokenValid(tok), seen |-> issued[account].count,
                     alive |-> issued[account].expiry > now, sent |-> FALSE,
                     ret |-> IF TokenValid(tok) THEN tok.token ELSE None]]
    /\ UNCHANGED << pc, orderVars, result, reqVars, flagVars, now, cacheVars, auth,
                    issued, pure_call >>

\* _request_new_token and _save_token / the assignment of _cached_token: one
\* POST to /oauth2/tokenP.  A response other than 200 raises.
RequestNewToken(t, ok) ==
    /\ caller[t].pc = "request"
    /\ LET a == caller[t].account
           n == issued[a].count + 1
           tok == [token |-> Some(n), expiry |-> now + TokenLifetime]
       IN /\ issued["acc1"].count + issued["acc2"].count < MaxIssued
          /\ issued' = [issued EXCEPT ![a] =
                          [count |-> n,
                           expiry |-> IF ok THEN tok.expiry ELSE issued[a].expiry]]
          /\ auth' = IF ok /\ caller[t].entry = "execute"
                     THEN [auth EXCEPT ![a] = tok]
                     ELSE auth
          /\ caller' = [caller EXCEPT ![t].pc = "idle", ![t].sent = TRUE,
                          ![t].ret = IF ok THEN tok.token ELSE None]
    /\ UNCHANGED << pc, orderVars, result, reqVars, flagVars, now, cacheVars,
                    pure_call >>

NextToken ==
    \/ \E t \in Threads, entry \in TokenEntries, account \in TokenAccounts :
          GetValidToken(t, entry, account)
    \/ \E t \in Threads, ok \in BOOLEAN : RequestNewToken(t, ok)
    \/ Tick

SpecToken == Init /\ [][NextToken]_vars

(***************************************************************************)
(* TR ID selection and status canonicalization, in the KisBroker of        *)
(* trading/kis_broker.py ("trading") and in the KisBroker of               *)
(* shared/broker/kis_broker.py that lambda_handler uses ("shared").        *)
(***************************************************************************)
Variants == {"trading", "shared"}
AccountTypes == {"FUTURES", "STOCK", "OVERSEAS"}
Sessions == {"DAY", "NIGHT", "CLOSED"}
TrActions == {"ORDER", "CANCEL", "BALANCE", "INQUIRY", "ORDERABLE"}
ForceSessions == {None} \cup {Some(s) : s \in Sessions}

\* KisBroker.TR_MAPPING of trading/kis_broker.py.
TradingTrMapping ==
    (<< "FUTURES", "DAY", FALSE, "ORDER" >> :> "TTTO1101U") @@
    (<< "FUTURES", "NIGHT", FALSE, "ORDER" >> :> "TTTN1101U") @@
    (<< "FUTURES", "DAY", TRUE, "ORDER" >> :> "VTTO1101U") @@
    (<< "FUTURES", "NIGHT", TRUE, "ORDER" >> :> "VTTO1101U") @@
    (<< "FUTURES", "DAY", FALSE, "CANCEL" >> :> "TTTO1103U") @@
    (<< "FUTURES", "NIGHT", FALSE, "CANCEL" >> :> "TTTN1103U") @@
    (<< "FUTURES", "DAY", TRUE, "CANCEL" >> :> "VTTO1103U") @@
    (<< "FUTURES", "NIGHT", TRUE, "CANCEL" >> :> "VTTO1103U") @@
    (<< "FUTURES", "DAY", FALSE, "BALANCE" >> :> "CTFO6118R") @@
    (<< "FUTURES", "DAY", TRUE, "BALANCE" >> :> "VTFO6118R") @@
    (<< "FUTURES", "NIGHT", FALSE, "BALANCE" >> :> "CTFN6118R") @@
    (<< "FUTURES", "NIGHT", TRUE, "BALANCE" >> :> "VTFO6118R") @@
    (<< "FUTURES", "DAY", FALSE, "INQUIRY" >> :> "TTTO5201R") @@
    (<< "FUTURES", "DAY", TRUE, "INQUIRY" >> :> "VTTO5201R") @@
    (<< "FUTURES", "NIGHT", FALSE, "INQUIRY" >> :> "STTN5201R") @@
    (<< "FUTURES", "NIGHT", TRUE, "INQUIRY" >> :> "VTTO5201R") @@
    (<< "FUTURES", "DAY", FALSE, "ORDERABLE" >> :> "TTTO5105R") @@
    (<< "FUTURES", "DAY", TRUE, "ORDERABLE" >> :> "VTTO5105R") @@
    (<< "FUTURES", "NIGHT", FALSE, "ORDERABLE" >> :> "STTN5105R") @@
    (<< "FUTURES", "NIGHT", TRUE, "ORDERABLE" >> :> "VTTO5105R")

\* KisBroker.TR_MAPPING of shared/broker/kis_broker.py.
SharedTrMapping ==
    (<< "FUTURES", "DAY", FALSE, "ORDER" >> :> "TTTO1101U") @@
    (<< "FUTURES", "NIGHT", FALSE, "ORDER" >> :> "TTTN1101U") @@
    (<< "FUTURES", "DAY", TRUE, "ORDER" >> :> "VTTO1101U") @@
    (<< "FUTURES", "DAY", FALSE, "INQUIRY" >> :> "TTTO5201R") @@
    (<< "FUTURES", "DAY", TRUE, "INQUIRY" >> :> "VTTO5201R") @@
    (<< "FUTURES", "NIGHT", FALSE, "INQUIRY" >> :> "STTN5201R")

TR_MAPPING(variant) == IF variant = "trading" THEN TradingTrMapping ELSE SharedTrMapping

\* The session both the CLOSED replacement and the second lookup use: DAY in
\* trading/kis_broker.py, NIGHT in shared/broker/kis_broker.py.
FallbackSession(variant) == IF variant = "trading" THEN "DAY" ELSE "NIGHT"

\* dict.get: None for a missing key.
Lookup(T, key) == IF key \in DOMAIN T THEN Some(T[key]) ELSE None

TrResult(ok, tr_id, session) == [ok |-> ok, tr_id |-> tr_id, session |-> session]

\* KisBroker._get_tr_id; market_session is what get_market_session returns.
_get_tr_id(variant, account_type, is_virtual, action, force_session, market_session) ==
    LET forced == force_session # None
        s0 == IF forced THEN force_session[1] ELSE market_session
        session == IF s0 = "CLOSED" /\ ~forced THEN FallbackSession(variant) ELSE s0
        first == Lookup(TR_MAPPING(variant), << account_type, session, is_virtual, action >>)
        tr_id == IF first # None THEN first
                 ELSE Lookup(TR_MAPPING(variant),
                             << account_type, FallbackSession(variant), is_virtual, action >>)
    IN IF tr_id = None THEN TrResult(FALSE, "No TR ID found", session)
       ELSE TrResult(TRUE, tr_id[1], session)

GetTrId(variant, account_type, is_virtual, action, force_session, market_session) ==
    /\ pure_call' =
          [kind |-> "tr", variant |-> variant, account_type |-> account_type,
           is_virtual |-> is_virtual, action |-> action,
           force_session |-> force_session, market_session |-> market_session,
           ret |-> _get_tr_id(variant, account_type, is_virtual, action,
                              force_session, market_session)]
    /\ UNCHANGED << pc, orderVars, result, reqVars, flagVars, now, cacheVars, tokenVars >>

\* The status records the broker may return for an order.
StatusRecords ==
    [ord_qty : 0..MaxStatusQty, tot_ccld_qty : 0..MaxStatusQty,
     rjct_qty : 0..MaxStatusQty, cncl_yn : {"Y", "N"}, cnc_cfrm_qty : 0..1]

\* A canonicalization that reports any fill as a complete one.
any_fill_is_filled(order_data) ==
    IF order_data.cncl_yn = "Y" \/ order_data.cnc_cfrm_qty > 0 THEN "CANCELLED"
    ELSE IF order_data.rjct_qty > 0 THEN "REJECTED"
    ELSE IF order_data.tot_ccld_qty = 0 THEN "PENDING"
    ELSE "FILLED"

\* KisBroker._determine_order_status (trading/kis_broker.py).
_determine_order_status(order_data) ==
    IF order_data.cncl_yn = "Y" \/ order_data.cnc_cfrm_qty > 0 THEN "CANCELLED"
    ELSE IF order_data.rjct_qty > 0 THEN "REJECTED"
    ELSE IF order_data.tot_ccld_qty = 0 THEN "PENDING"
    ELSE IF order_data.tot_ccld_qty >= order_data.ord_qty THEN "FILLED"
    ELSE "PARTIAL_FILLED"

\* The status KisBroker._futures_order_status (shared/broker/kis_broker.py)
\* gives the order it found; it reads ord_qty, tot_ccld_qty and rjct_qty.
_futures_order_status(rec) ==
    IF rec.rjct_qty > 0 THEN "REJECTED"
    ELSE IF rec.tot_ccld_qty >= rec.ord_qty /\ rec.ord_qty > 0 THEN "FILLED"
    ELSE IF rec.tot_ccld_qty > 0 THEN "PARTIAL_FILLED"
    ELSE "PENDING"

CanonicalStatus(variant, rec) ==
    IF variant = "trading" THEN _determine_order_status(rec)
    ELSE _futures_order_status(rec)

DetermineOrderStatus(variant, rec) ==
    /\ pure_call' = [kind |-> "status", variant |-> variant, record |-> rec,
                     status |-> CanonicalStatus(variant, rec)]
    /\ UNCHANGED << pc, orderVars, result, reqVars, flagVars, now, cacheVars, tokenVars >>

(***************************************************************************)
(* Order-status lookup: the search of the broker's order list for the      *)
(* requested order.  Order numbers are strings of digits; an order id is   *)
(* a string of digits and "-" (a stock order id is "<org>-<odno>").        *)
(***************************************************************************)
Digits == {"0", "1"}

OrderNumbers == UNION {[1..n -> Digits] : n \in 1..MaxIdLen}

OrderIdTexts == UNION {[1..n -> Digits \cup {"-"}] : n \in 1..MaxIdLen}

\* str.lstrip('0').
RECURSIVE lstrip0(_)
lstrip0(s) == IF s # << >> /\ Head(s) = "0" THEN lstrip0(Tail(s)) ELSE s

\* The odno of order_id.split('-', 1), or the whole id when it has no "-".
split_odno(order_id) ==
    IF \E i \in 1..Len(order_id) : order_id[i] = "-"
    THEN LET i == CHOOSE k \in 1..Len(order_id) :
                     /\ order_id[k] = "-"
                     /\ \A j \in 1..(k - 1) : order_id[j] # "-"
         IN SubSeq(order_id, i + 1, Len(order_id))
    ELSE order_id

\* The lookups: KisBroker._futures_order_status and _stock_order_status of
\* trading/kis_broker.py, KisAPI._futures_order_status of broker/kis_api.py.
StatusLookups == {"trading_futures", "trading_stock", "broker_api"}

\* The comparison each lookup makes between a record's odno and the request.
order_matches(lookup, odno, order_id) ==
    IF lookup = "trading_futures" THEN lstrip0(odno) = lstrip0(order_id)
    ELSE IF lookup = "trading_stock" THEN odno = split_odno(order_id)
    ELSE odno = order_id

\* One lookup over the order list the broker returned.
OrderStatusLookup(lookup, order_id, orders) ==
    /\ pure_call = NoCall
    /\ pure_call' = [kind |-> "lookup", lookup |-> lookup, order_id |-> order_id,
                     orders |-> orders,
                     found |-> \E i \in 1..Len(orders) :
                                   order_matches(lookup, orders[i], order_id)]
    /\ UNCHANGED << pc, orderVars, result, reqVars, flagVars, now, cacheVars, tokenVars >>

NextBroker ==
    \/ \E variant \in Variants, account_type \in AccountTypes, is_virtual \in BOOLEAN,
          action \in TrActions, force_session \in ForceSessions,
          market_session \in Sessions :
          GetTrId(variant, account_type, is_virtual, action, force_session, market_session)
    \/ \E variant \in Variants, rec \in StatusRecords :
          DetermineOrderStatus(variant, rec)

SpecBroker == Init /\ [][NextBroker]_vars

(***************************************************************************)
(* Full-trade SELL signals on one account and symbol, one after another.   *)
(* The position of the symbol is read through KisBroker.get_positions,     *)
(* i.e. through the response cache; nothing in the repository removes or   *)
(* refreshes a cache entry when an order is placed.  The position at the   *)
(* broker is HeldBefore less what the accepted SELL orders sold: every     *)
(* accepted order fills.                                                   *)
(***************************************************************************)
PositionsKey == [endpoint |-> "positions", account |-> "acc1"]

RECURSIVE Sold(_)
Sold(calls) ==
    IF calls = << >> THEN 0
    ELSE Sold(SubSeq(calls, 1, Len(calls) - 1))
             + (IF calls[Len(calls)].ok /\ calls[Len(calls)].action = "SELL"
                THEN calls[Len(calls)].quantity ELSE 0)

BrokerPosition == HeldBefore - Sold(placed)

\* execute_signal, steps 3-4, for a SELL with quantity 0: the position read
\* (_get_cached_or_fetch under the key of get_positions) and
\* _calculate_actual_quantity.  fetch_ok = FALSE is the fetch raising:
\* get_positions returns nothing and the position counts as flat.
FullSellRead(fetch_ok) ==
    /\ pc = "idle"
    /\ Len(placed) < MaxSells
    /\ LET e == cache[PositionsKey]
           hit == e # None /\ now < e[1].expires
           current_qty == IF hit THEN e[1].data.value
                          ELSE IF fetch_ok THEN BrokerPosition ELSE 0
           r == _calculate_actual_quantity("STOCK", "SELL", 0, current_qty, 0)
       IN /\ hit => fetch_ok
          /\ cache' = IF hit \/ ~fetch_ok THEN cache
                      ELSE StoreEntry(cache, PositionsKey,
                                      Data(BrokerPosition, now, FALSE),
                                      now + TTL(PositionsKey))
          /\ current_position' = Some(current_qty)
          /\ IF r.success
             THEN /\ pc' = "fs_place"
                  /\ order' = Some([action |-> "SELL", quantity |-> r.quantity,
                                    price |-> None, transition_type |-> "EXIT"])
             ELSE /\ pc' = "idle"
                  /\ order' = None
    /\ UNCHANGED << placed, last_poll, waitVars, exit_success, exit_order_id,
                    entry_order_id, result, reqVars, flagVars, now, fetches, fetched,
                    reader, tokenVars, pure_call >>

\* place_order and wait_for_fill: the order is accepted and found FILLED at
\* the first poll, PollDelay after it was placed, or the broker call raises.
FullSellPlace(ok) ==
    /\ pc = "fs_place"
    /\ now + PollDelay <= MaxClock
    /\ placed' = Append(placed, BrokerCall(to_broker_format(order[1]), "single", ok))
    /\ now' = IF ok THEN now + PollDelay ELSE now
    /\ pc' = "idle"
    /\ order' = None
    /\ current_position' = None
    /\ UNCHANGED << last_poll, waitVars, exit_success, exit_order_id, entry_order_id,
                    result, reqVars, flagVars, cacheVars, tokenVars, pure_call >>

NextSell ==
    \/ \E fetch_ok \in BOOLEAN : FullSellRead(fetch_ok)
    \/ \E ok \in BOOLEAN : FullSellPlace(ok)
    \/ Tick

SpecSell == Init /\ [][NextSell]_vars

(***************************************************************************)
(* KisAuth.get_request_headers (trading/kis_auth.py): the tr_id header of  *)
(* a request.  A TR ID is a string, here a sequence of characters.         *)
(***************************************************************************)
TrIdTexts ==
    {<< >>} \cup
    {<< c >> \o rest : c \in {"T", "J", "C", "V", "S", "H", "t"},
                       rest \in {<< >>, << "T" >>, << "T", "1" >>}}

\* A rewrite that knows only the T prefix.
rewrite_t_only(is_virtual, tr_id) ==
    IF is_virtual /\ tr_id # << >> /\ tr_id[1] = "T"
    THEN << "V" >> \o Tail(tr_id)
    ELSE tr_id

\* if self.is_virtual and tr_id.startswith(('T', 'J', 'C')): 'V' + tr_id[1:]
virtual_tr_id(is_virtual, tr_id) ==
    IF is_virtual /\ tr_id # << >> /\ tr_id[1] \in {"T", "J", "C"}
    THEN << "V" >> \o Tail(tr_id)
    ELSE tr_id

\* token_ok = FALSE is get_valid_token raising: no headers are built.
GetRequestHeaders(is_virtual, tr_id, token_ok) ==
    /\ pure_call = NoCall
    /\ pure_call' = [kind |-> "headers", is_virtual |-> is_virtual, tr_id |-> tr_id,
                     raised |-> ~token_ok,
                     headers |-> IF token_ok
                                 THEN Some([tr_id |-> virtual_tr_id(is_virtual, tr_id),
                                            custtype |-> "P"])
                                 ELSE None]
    /\ UNCHANGED << pc, orderVars, result, reqVars, flagVars, now, cacheVars, tokenVars >>

(***************************************************************************)
(* KisBroker.get_market_session (trading/kis_broker.py).  A wallclock      *)
(* reading is a weekday (Monday is 0) and a time of day counted in ticks   *)
(* since midnight; datetime.time() keeps the fraction of the second.       *)
(***************************************************************************)
dt_time(hour, minute) == (hour * 3600 + minute * 60) * TicksPerSecond

Weekdays == 0..6

\* The times of day around each limit the code compares with, and around
\* midnight.
TimesOfDay ==
    {b + d : b \in {dt_time(0, 0), dt_time(6, 0), dt_time(9, 0), dt_time(15, 30),
                    dt_time(18, 0), dt_time(24, 0)},
             d \in (0 - TicksPerSecond)..TicksPerSecond}
        \cap (0..(dt_time(24, 0) - 1))

\* A session rule whose day session ends before 15:30:00.
day_closes_early(weekday, current_time) ==
    IF weekday >= 5 THEN "CLOSED"
    ELSE IF dt_time(9, 0) <= current_time /\ current_time < dt_time(15, 30) THEN "DAY"
    ELSE IF current_time >= dt_time(18, 0) \/ current_time <= dt_time(6, 0) THEN "NIGHT"
    ELSE "CLOSED"

get_market_session(weekday, current_time) ==
    IF weekday >= 5 THEN "CLOSED"
    ELSE IF dt_time(9, 0) <= current_time /\ current_time <= dt_time(15, 30) THEN "DAY"
    ELSE IF current_time >= dt_time(18, 0) \/ current_time <= dt_time(6, 0) THEN "NIGHT"
    ELSE "CLOSED"

GetMarketSession(weekday, current_time) ==
    /\ pure_call = NoCall
    /\ pure_call' = [kind |-> "session", weekday |-> weekday,
                     current_time |-> current_time,
                     session |-> get_market_session(weekday, current_time)]
    /\ UNCHANGED << pc, orderVars, result, reqVars, flagVars, now, cacheVars, tokenVars >>

(***************************************************************************)
(* SecretLoader (shared/broker/secrets.py, trading/secret_loader.py): the  *)
(* accounts of ACCOUNTS_CONFIG.  A record carries its id, its              *)
(* webhook_token, app_key for the credential fields that may be empty and  *)
(* account_product as its characters; app_secret and account_number are    *)
(* taken to be well formed.  _accounts_cache is a dict: a sequence of      *)
(* records in insertion order, one for each key.                           *)
(***************************************************************************)
SecretRecords ==
    [id : {"", "a", "b"}, webhook_token : {"tokA", "tokB"}, app_key : {"", "k"},
     account_product : {<< "1" >>, << "0", "1" >>}]

AccountLists == UNION {[1..n -> SecretRecords] : n \in 0..MaxRecords}

SecretQueries ==
    [by : {"id"}, arg : {"a", "b"}] \cup [by : {"token"}, arg : {"tokA", "tokB"}]
        \cup [by : {"list"}, arg : {""}]

\* One step of the dict comprehension: a record without id is skipped, a
\* record whose id is already a key takes the place of the earlier one.
cache_put(accounts, account) ==
    IF account.id = "" THEN accounts
    ELSE IF \E k \in 1..Len(accounts) : accounts[k].id = account.id
    THEN [k \in 1..Len(accounts) |->
             IF accounts[k].id = account.id THEN account ELSE accounts[k]]
    ELSE Append(accounts, account)

RECURSIVE accounts_cache(_)
accounts_cache(accounts_list) ==
    IF accounts_list = << >> THEN << >>
    ELSE cache_put(accounts_cache(SubSeq(accounts_list, 1, Len(accounts_list) - 1)),
                   accounts_list[Len(accounts_list)])

validate_secret(secret_data) ==
    /\ secret_data.app_key # ""
    /\ Len(secret_data.account_product) = 2

\* dict.get(account_id), handed back only if it validates.
_load_from_env(accounts, account_id) ==
    IF \E k \in 1..Len(accounts) : accounts[k].id = account_id
    THEN LET account_data == accounts[CHOOSE k \in 1..Len(accounts) :
                                          accounts[k].id = account_id]
         IN IF validate_secret(account_data) THEN Some(account_data) ELSE None
    ELSE None

\* The first record of the dict, in its order, that carries the token.
first_account_by_token(accounts, webhook_token) ==
    IF \E k \in 1..Len(accounts) : accounts[k].webhook_token = webhook_token
    THEN Some(accounts[CHOOSE k \in 1..Len(accounts) :
                          /\ accounts[k].webhook_token = webhook_token
                          /\ \A j \in 1..(k - 1) :
                                accounts[j].webhook_token # webhook_token])
    ELSE None

list_available_accounts(accounts) == [k \in 1..Len(accounts) |-> accounts[k].id]

\* The first call on a fresh process: it fills _accounts_cache from
\* ACCOUNTS_CONFIG and answers the query.
SecretLookup(accounts_list, query) ==
    /\ pure_call = NoCall
    /\ LET accounts == accounts_cache(accounts_list)
       IN pure_call' =
             [kind |-> "secrets", accounts_list |-> accounts_list, query |-> query,
              _accounts_cache |-> accounts,
              ret |-> CASE query.by = "id" -> _load_from_env(accounts, query.arg)
                        [] query.by = "token" ->
                              first_account_by_token(accounts, query.arg)
                        [] query.by = "list" -> list_available_accounts(accounts)]
    /\ UNCHANGED << pc, orderVars, result, reqVars, flagVars, now, cacheVars, tokenVars >>

(***************************************************************************)
(* The adapter's remaining pure steps, one call in a behaviour.            *)
(***************************************************************************)
NextAdapter ==
    \/ \E lookup \in StatusLookups, order_id \in OrderIdTexts, odno \in OrderNumbers :
          OrderStatusLookup(lookup, order_id, << odno >>)
    \/ \E is_virtual \in BOOLEAN, tr_id \in TrIdTexts, token_ok \in BOOLEAN :
          GetRequestHeaders(is_virtual, tr_id, token_ok)
    \/ \E weekday \in Weekdays, current_time \in TimesOfDay :
          GetMarketSession(weekday, current_time)
    \/ \E accounts_list \in AccountLists, query \in SecretQueries :
          SecretLookup(accounts_list, query)

SpecAdapter == Init /\ [][NextAdapter]_vars

(***************************************************************************)
(* Properties of order execution.                                          *)
(***************************************************************************)
EntryPlaced == \E i \in DOMAIN placed : placed[i].leg = "entry"
CloseAccepted == \E i \in DOMAIN placed : placed[i].leg = "exit" /\ placed[i].ok

\* C1: in a REVERSE execution the entry order goes to the broker only when the
\* re-read position was flat, or the close order was accepted by the broker
\* and the latest status poll (the one that ended the close's wait) returned
\* FILLED.  A close that cannot be placed, is rejected or cancelled, or times
\* out is therefore never followed by an entry order.
C1_ReverseSafety ==
    [][ (EntryPlaced' /\ ~EntryPlaced)
          => \/ current_position = Some(0)
             \/ CloseAccepted /\ last_poll = "FILLED" ]_vars

\* A REVERSE whose close order was accepted, stayed PENDING until its 120 s
\* ran out, and returned with the close as the only broker call.
C1_CloseTimedOut ==
    /\ pc = "done"
    /\ order # None
    /\ order.transition_type = "REVERSE"
    /\ Len(placed) = 1
    /\ placed[1].leg = "exit"
    /\ placed[1].ok
    /\ last_poll = "PENDING"
    /\ ~result.success

\* C2: once a REVERSE over a held position q (the order on the side opposite
\* to q and larger than |q|) has placed its entry, the broker has seen two
\* orders: a market close of |q| on the side opposite to the position, then
\* an entry on the order's side for the order's quantity less |q|.
C2_ReverseSequence ==
    (/\ EntryPlaced
     /\ current_position # None
     /\ LET q == current_position[1] IN
          \/ q > 0 /\ order.action = "SELL" /\ order.quantity > q
          \/ q < 0 /\ order.action = "BUY" /\ order.quantity > 0 - q)
      => LET q == current_position[1] IN
          /\ Len(placed) = 2
          /\ placed[1].leg = "exit"
          /\ placed[1].action = (IF q > 0 THEN "SELL" ELSE "BUY")
          /\ placed[1].quantity = Abs(q)
          /\ placed[1].price = None
          /\ placed[2].leg = "entry"
          /\ placed[2].action = order.action
          /\ placed[2].quantity = order.quantity - Abs(q)

(***************************************************************************)
(* Properties of the risk gate and of the size resolution.                 *)
(***************************************************************************)
Notional == get_estimated_value(ctx.quantity, signal.price)
RefusedAs(reason) ==
    pc = "done" /\ result.error_type = "risk" /\ result.message = reason

\* C6: whenever the position-limit check has run on a positive portfolio
\* value, the order is refused with sub-reason position_limit_exceeded exactly
\* when notional / portfolio value is above the max_position_ratio of the
\* signal's strategy, and a refused order has made no broker call.
C6_PositionLimit ==
    (/\ ctx # None
     /\ ctx.portfolio_value # Unread
     /\ ctx.portfolio_value.total_value > 0)
      => LET within == 100 * Notional
                         <= Strategies[ctx.strategy].max_position_ratio
                              * ctx.portfolio_value.total_value
         IN /\ within <=> ~RefusedAs("position_limit_exceeded")
            /\ RefusedAs("position_limit_exceeded") => placed = << >>

\* C7: whenever the risk gate has read the balance, the notional is positive;
\* a balance of status error_fallback refuses the order (no broker call); a
\* balance of status cached is never refused as unreliable, the gate goes on
\* to the position-limit check exactly when the available balance covers the
\* notional, and refuses for insufficient balance otherwise.
C7_BalanceGate ==
    (ctx # None /\ ctx.balance_read # Unread)
      => /\ Notional > 0
         /\ ctx.balance_read.status = "error_fallback"
              => RefusedAs("unreliable_balance_data") /\ placed = << >>
         /\ ctx.balance_read.status = "cached"
              => /\ ~RefusedAs("unreliable_balance_data")
                 /\ ctx.portfolio_value # Unread
                      <=> ctx.balance_read.available_balance >= Notional
                 /\ ctx.portfolio_value = Unread
                      => RefusedAs("insufficient_balance") /\ placed = << >>

\* A limit order approved by the whole gate on a cached balance.
C7_CachedApproved ==
    /\ pc = "es_execute"
    /\ ctx.balance_read # Unread
    /\ ctx.balance_read.status = "cached"
    /\ Notional > 0

\* C8: whenever the daily-loss check has read the day's P&L, the order is
\* refused with the daily-loss check named exactly when the P&L is not above
\* minus the max_daily_loss of the signal's strategy, and a refused order has
\* made no broker call.
C8_DailyLoss ==
    (/\ ctx # None
     /\ ctx.daily_pnl # Unread
     /\ ctx.daily_pnl.status = "success")
      => LET passes == ctx.daily_pnl.pnl
                         > 0 - Strategies[ctx.strategy].max_daily_loss
         IN /\ passes <=> ~RefusedAs("daily_loss_limit_exceeded")
            /\ RefusedAs("daily_loss_limit_exceeded") => placed = << >>

\* C9: a signal whose default size was resolved from a failed orderable-amount
\* read (status error_safe) makes no broker order call.
C9_NoOrderOnOrderableFailure ==
    (ctx # None /\ ctx.default_read.status = "error_safe") => placed = << >>

(***************************************************************************)
(* Properties of the webhooks.                                             *)
(***************************************************************************)
Accepted == Len(placed) > 0
TokenOf(account_id) == SecretAccounts[account_id].webhook_token
StrategyBinds(webhook_token, account_id) ==
    \E n \in StrategyNames :
        /\ Strategies[n].webhook_token = webhook_token
        /\ Strategies[n].account_id = account_id
        /\ Strategies[n].is_active

\* C3: a signal that is executed while the emergency-stop flag of its
\* executor is set (AutoTrader.process_signal, SignalExecutor.execute) is
\* answered at once with a failed result whose error_type is emergency_stop,
\* and its handling has made no order placement and no status poll.
C3_EmergencyStop ==
    [][ (/\ pc = "idle"
         /\ pc' # "idle"
         /\ \/ signal'.entry = "process_signal" /\ emergency_stop
            \/ signal'.entry = "execute" /\ se_emergency_stop)
          => /\ pc' = "done"
             /\ ~result'.success
             /\ "error_type" \in DOMAIN result'
             /\ result'.error_type = "emergency_stop"
             /\ placed' = << >>
             /\ last_poll' = "EMPTY" ]_vars

\* A valid signal for an active strategy and account, turned away by
\* SignalExecutor.execute because the flag is set.
C3_StoppedValidSignal ==
    /\ pc = "done"
    /\ signal.entry = "execute"
    /\ se_emergency_stop
    /\ validate(signal) = "ok"
    /\ _route_signal(signal) # None
    /\ result.error = "Emergency stop is active"
    /\ placed = << >>

\* C4: a step that resolves the account of a signal resolves one that is
\* active and bound to the signal's token (by its own webhook_token in the
\* Lambda webhook, by an active strategy carrying the token in the two
\* executors), and an order is placed only for a signal whose account has
\* been resolved.
C4_Routing ==
    [][ /\ (ctx = None /\ ctx' # None)
             => LET a == ctx'.account_id
                    tok == signal'.webhook_token
                IN CASE signal'.entry = "lambda_handler" ->
                          TokenOf(a) = tok /\ SecretAccounts[a].is_active
                     [] signal'.entry = "execute" ->
                          StrategyBinds(tok, a) /\ Accounts[a].is_active
                     [] signal'.entry = "process_signal" ->
                          StrategyBinds(tok, a) /\ is_active[a]
        /\ (Len(placed') > Len(placed)) => ctx # None ]_vars

\* An order placed by the Lambda webhook.
C4_LambdaAccepted ==
    /\ pc = "done"
    /\ signal.entry = "lambda_handler"
    /\ Accepted
    /\ placed[1].ok
    /\ TokenOf(ctx.account_id) = signal.webhook_token

\* C5: a valid signal whose token matches no configured account (no account
\* of ACCOUNTS_CONFIG for the Lambda webhook, no strategy for
\* SignalExecutor) is answered with HTTP 401 and no broker call is made.
C5_UnknownToken401 ==
    (/\ pc = "done"
     /\ http # None
     /\ validate(signal) = "ok"
     /\ \/ /\ signal.entry = "lambda_handler"
           /\ \A a \in AccountIds : TokenOf(a) # signal.webhook_token
        \/ /\ signal.entry = "execute"
           /\ \A n \in StrategyNames :
                 Strategies[n].webhook_token # signal.webhook_token)
      => http = Some(401) /\ ~Accepted

\* C10: a request is answered with HTTP 200 only if the latest status poll of
\* its order returned FILLED, and a request whose order was polled REJECTED
\* or CANCELLED is answered with a failure.
C10_SuccessOnlyIfFilled ==
    (pc = "done" /\ http # None)
      => /\ http = Some(200) => last_poll = "FILLED"
         /\ last_poll \in {"REJECTED", "CANCELLED"}
              => http # Some(200) /\ ~result.success

(***************************************************************************)
(* Properties of the results.                                              *)
(***************************************************************************)
ErrorTypes == {"validation", "risk", "broker", "system", "emergency_stop"}
HasField(r, f) == f \in DOMAIN r

\* C11: when a fill wait ends because its timeout has run out, the result
\* returned for the signal is a failure that carries the id of the order that
\* was awaited and the last order status the wait observed.
C11_TimeoutKeepsOrder ==
    [][ (pc \in WaitPcs /\ elapsed >= timeout /\ pc' = "done")
          => /\ ~result'.success
             /\ result'.order_id = entry_order_id
             /\ HasField(result', "fill_info")
             /\ result'.fill_info = last_status ]_vars

\* C12: when a REVERSE ends in the wait for its close order (the close was
\* rejected, cancelled or not filled in time), the result of the signal has
\* error_type broker and names the close order as its exit order; no entry
\* order exists.
C12_ReverseAbortIds ==
    [][ (pc = "rev_exit_wait" /\ pc' = "done")
          => /\ ~result'.success
             /\ HasField(result', "error_type")
             /\ result'.error_type = "broker"
             /\ HasField(result', "exit_order_id")
             /\ result'.exit_order_id = exit_order_id
             /\ ~EntryPlaced' ]_vars

\* C13: a signal that AutoTrader.process_signal answers with a failure is
\* answered with an error_type among validation, risk, broker, system and
\* emergency_stop, and, unless the failure is the broker's, without any
\* order having been placed for it.
C13_TypedShortCircuit ==
    (pc = "done" /\ signal.entry = "process_signal" /\ ~result.success)
      => /\ result.error_type \in ErrorTypes
         /\ result.error_type # "broker" => placed = << >>

(***************************************************************************)
(* Properties of the fill wait.                                            *)
(***************************************************************************)

C15_CancelAbortsWait ==
    [][ (/\ cancelled
         /\ pc \in AllWaitPcs
         /\ << pc, elapsed, last_poll >>' # << pc, elapsed, last_poll >>)
          => /\ pc' = "done"
             /\ last_poll' = last_poll
             /\ ~result'.success
             /\ HasField(result', "error")
             /\ result'.error = "cancelled" ]_vars

\* C16: within one request no order leg goes to the broker twice, and a
\* placement the broker refused is the last broker order call of the request:
\* the request has ended in a failure.
C16_NoRetry ==
    /\ \A i, j \in DOMAIN placed : placed[i].leg = placed[j].leg => i = j
    /\ \A i \in DOMAIN placed :
          ~placed[i].ok => /\ i = Len(placed)
                           /\ pc = "done"
                           /\ ~result.success

\* A REVERSE whose close was filled and whose entry the broker refused.
C16_EntryRefused ==
    /\ pc = "done"
    /\ Len(placed) = 2
    /\ placed[1].leg = "exit" /\ placed[1].ok
    /\ placed[2].leg = "entry" /\ ~placed[2].ok
    /\ ~result.success

(***************************************************************************)
(* Properties of the size resolution and of the transition type.           *)
(***************************************************************************)
RefusedBeforeOrder ==
    /\ pc = "done"
    /\ ~result.success
    /\ result.error_type = "validation"
    /\ order = None
    /\ placed = << >>

\* C17: for a signal of quantity 0 or -1 whose position q has been read: a
\* SELL over a long position is sized q and a BUY over a short position |q|,
\* and the order built for it has that quantity on the signal's side; a SELL
\* over a short position, and a SELL over a flat position on an account that
\* is not a futures account, end in a validation error with no order built
\* and none placed.
C17_FullTradeQuantity ==
    (ctx # None /\ ctx.current_qty # None /\ signal.quantity \in {0, 0 - 1})
      => LET q == ctx.current_qty[1]
             closes == \/ signal.action = "SELL" /\ q > 0
                       \/ signal.action = "BUY" /\ q < 0
         IN /\ closes => /\ ctx.quantity = Abs(q)
                         /\ ctx.is_full_trade
                         /\ order # None
                              => /\ order.quantity = Abs(q)
                                 /\ order.action = signal.action
                                 /\ order.transition_type = "EXIT"
            /\ (signal.action = "SELL" /\ q < 0) => RefusedBeforeOrder
            /\ (/\ signal.action = "SELL"
                /\ q = 0
                /\ Accounts[ctx.account_id].type # "FUTURES") => RefusedBeforeOrder

\* A full-trade SELL over a long position of 2, approved as an order for 2.
C17_CloseLongApproved ==
    /\ pc = "es_execute"
    /\ signal.action = "SELL"
    /\ signal.quantity = 0 - 1
    /\ ctx.current_qty = Some(2)
    /\ order.action = "SELL"
    /\ order.quantity = 2

(***************************************************************************)
(* Properties of signal validation.                                        *)
(***************************************************************************)
ValidationErrors ==
    {"symbol_required", "invalid_action", "invalid_quantity", "token_required"}

\* What validation is to accept: symbol, action and token present, the action
\* BUY or SELL once in upper case, the quantity at least -1.
Acceptable(sig) ==
    /\ sig.symbol # ""
    /\ sig.action \in {"BUY", "SELL"}
    /\ sig.webhook_token # ""
    /\ sig.quantity >= 0 - 1

\* C18: a signal that SignalExecutor.execute has answered (the executor not
\* being stopped) was turned away by validation exactly when it lacks a
\* symbol, an action or a token, its action in upper case is neither BUY nor
\* SELL, or its quantity is below -1; the quantities 0 and -1 pass.
C18_ValidationAccepts ==
    (/\ pc = "done"
     /\ signal.entry = "execute"
     /\ result.error # "Emergency stop is active")
      => (result.error \in ValidationErrors <=> ~Acceptable(signal))

\* C19: a signal whose action is neither BUY nor SELL, processed by
\* AutoTrader.process_signal while trading is not stopped, is answered with a
\* failure of error_type validation; it has not been routed and no order has
\* been placed.
C19_UnknownActionIsValidation ==
    (/\ pc = "done"
     /\ signal.entry = "process_signal"
     /\ result.error_type # "emergency_stop"
     /\ Upper(signal.action) \notin {"BUY", "SELL"})
      => /\ ~result.success
         /\ result.error_type = "validation"
         /\ ctx = None
         /\ placed = << >>

\* The table of transitions: by the sign of the position, the action, and the
\* order's quantity against the size of the position.
TransitionTable(q, action, n) ==
    IF q = 0 THEN "ENTRY"
    ELSE IF (q > 0 /\ action = "BUY") \/ (q < 0 /\ action = "SELL") THEN "ENTRY"
    ELSE IF n <= Abs(q) THEN "EXIT"
    ELSE "REVERSE"

\* C20: the transition type of the order handed to execution is the table's
\* entry for the position read, the order's action and the order's quantity:
\* ENTRY from flat, ENTRY for BUY over long and SELL over short, and for SELL
\* over long and BUY over short EXIT up to the held quantity and REVERSE above
\* it.  PositionManager.calculate_transition_type gives the same value.
C20_TransitionTable ==
    pc = "es_execute"
      => LET q == ctx.current_qty[1]
             t == TransitionTable(q, order.action, order.quantity)
         IN /\ order.transition_type = t
            /\ calculate_transition_type(q, order.action, order.quantity) = t

\* A BUY of 2 over a short position of 2 (EXIT) approved for execution.
C20_ExitAtEqual ==
    /\ pc = "es_execute"
    /\ ctx.current_qty = Some(0 - 2)
    /\ order.action = "BUY"
    /\ order.quantity = 2
    /\ order.transition_type = "EXIT"

(***************************************************************************)
(* The status codes of the signal endpoint.                                *)
(***************************************************************************)
\* The account a request's token leads to: the token's account of
\* ACCOUNTS_CONFIG for the Lambda webhook, the account of the token's
\* strategy for SignalExecutor; None for a token that leads nowhere.
TokenAccount ==
    IF signal.entry = "lambda_handler"
    THEN (IF get_account_by_token(signal.webhook_token) = None THEN None
          ELSE Some(get_account_by_token(signal.webhook_token)[1].id))
    ELSE _route_signal(signal)

StoppedAnswer == HasField(result, "error") /\ result.error = "Emergency stop is active"

\* C21: the signal endpoint answers 200 on success, 400 on a validation
\* failure, 401 on an unknown token, 403 on an inactive account and 500 on a
\* broker or system failure.
C21_StatusCodes ==
    (pc = "done" /\ http # None /\ ~StoppedAnswer)
      => /\ result.success => http = Some(200)
         /\ validate(signal) # "ok" => http = Some(400)
         /\ (validate(signal) = "ok" /\ TokenAccount = None) => http = Some(401)
         /\ (/\ validate(signal) = "ok"
             /\ TokenAccount # None
             /\ ~Accounts[TokenAccount[1]].is_active) => http = Some(403)
         /\ (Accepted /\ ~result.success) => http = Some(500)

\* An invalid signal was answered by SignalExecutor's endpoint.
C21_InvalidSignalAnswered ==
    /\ pc = "done"
    /\ signal.entry = "execute"
    /\ http # None
    /\ ~StoppedAnswer
    /\ validate(signal) = "invalid_quantity"

(***************************************************************************)
(* Properties of the response cache.                                       *)
(***************************************************************************)
Completed(t) == reader[t].pc = "idle" /\ reader[t].ret # NoRead
FromCache(t) == Completed(t) /\ reader[t].ret.kind = "data" /\ reader[t].ret.from_cache
PriorValue(t) == reader[t].prior # None /\ ~reader[t].prior[1].data.error

\* C22: a read whose fetch failed returns the prior successfully fetched
\* value with status cached and a cache age when there is one, and a zero
\* value with status error_fallback and an error description when there is
\* none.
C22_FallbackOnFailure ==
    \A t \in Threads :
        (Completed(t) /\ reader[t].failed)
          => LET r == reader[t].ret IN
             IF PriorValue(t)
             THEN /\ r.kind = "data"
                  /\ r.data = reader[t].prior[1].data
                  /\ HasField(r, "status")
                  /\ r.status = "cached"
                  /\ HasField(r, "cache_age")
             ELSE /\ r.kind = "data"
                  /\ r.data.value = 0
                  /\ r.data.error
                  /\ HasField(r, "status")
                  /\ r.status = "error_fallback"

\* A fetch failed for a key whose earlier value was still in the cache.
C22_FailedWithPrior ==
    \E t \in Threads : Completed(t) /\ reader[t].failed /\ PriorValue(t)

\* No thread is between its fetch and its store for the key.
Settled(key) == \A t \in Threads : ~(reader[t].pc = "store" /\ reader[t].key = key)

\* C23: a read served from the cache returns the most recently successfully
\* fetched value of its key: once a newer fetch has succeeded and every
\* writer of the key has stored, no read returns an older cached value,
\* however the reads of the key interleaved.
C23_CacheMonotonic ==
    [][ \A t \in Threads :
          (/\ reader'[t] # reader[t]
           /\ reader'[t].pc = "idle"
           /\ reader'[t].ret.kind = "data"
           /\ reader'[t].ret.from_cache
           /\ Settled(reader'[t].key))
            => reader'[t].ret.data.value = fetched[reader'[t].key] ]_vars

\* The TTLs of the claim: 30 s for balance and positions, 10 s for the
\* orderable amount.
ClaimedTTL(key) == IF key.endpoint = "orderable" THEN 10 ELSE 30

\* C24: a read within the TTL of the fetch that filled the cache entry of its
\* key (30 s for balance and positions, 10 s for the orderable amount) is
\* served from the cache and does not call the broker; a read past the TTL
\* fetches again and a successful fetch replaces the entry.
C24_ServedWithinTTL ==
    \A t \in Threads :
        (reader[t].pc = "fetch" /\ PriorValue(t))
          => reader[t].now - reader[t].prior[1].data.stamp >= ClaimedTTL(reader[t].key)

\* A read found an entry of its key and went on to call the broker.
C24_RefetchedOverEntry ==
    \E t \in Threads : reader[t].pc = "fetch" /\ PriorValue(t)

\* The value and the expiry of an entry come from one write: the expiry is
\* the writer's clock reading plus the TTL, and the value carries that reading.
Coherent(key, e) == e.expires = e.data.stamp + TTL(key)

\* C25: with two threads reading and writing the cache, every entry in the
\* cache and every entry a read has seen holds a value and an expiry stored
\* together by one write; a read may see a stale entry, never a torn one.
C25_CoherentSnapshot ==
    /\ \A k \in CacheKeys : cache[k] # None => Coherent(k, cache[k][1])
    /\ \A t \in Threads :
          reader[t].prior # None => Coherent(reader[t].key, reader[t].prior[1])

\* A stale read under contention: a thread was served the entry that a slower
\* writer stored over the entry of a newer fetch.
C25_StaleReadServed ==
    \E t \in Threads :
        /\ FromCache(t)
        /\ reader[t].ret.data.value > 0
        /\ reader[t].ret.data.value < reader[t].latest

(***************************************************************************)
(* Properties of the token cache.                                          *)
(***************************************************************************)
\* Two calls raced: both found the account's token missing or expired before
\* either had sent its token request.
Raced(t1, t2) ==
    /\ t1 # t2
    /\ caller[t1].account = caller[t2].account
    /\ caller[t1].missing
    /\ caller[t2].missing
    /\ caller[t1].seen = caller[t2].seen

\* C26: when two concurrent requests for one account both find the token
\* missing or expired, at most one token request goes to the broker.
C26_SingleRefresh ==
    \A t1, t2 \in Threads : Raced(t1, t2) => ~(caller[t1].sent /\ caller[t2].sent)

\* C27: a cached token whose expiry is in the future is returned without a
\* token request: a call finds the token missing only when no token issued
\* for the account is still alive, so the requests of one token lifetime
\* cause one issuance.
C27_OneIssuancePerLifetime ==
    \A t \in Threads :
        /\ caller[t].missing => ~caller[t].alive
        /\ (caller[t].pc = "idle" /\ caller[t].entry # "none" /\ ~caller[t].missing)
             => ~caller[t].sent /\ caller[t].ret # None

\* A second request of the token's lifetime was served.
C27_SecondRequestServed ==
    \E t \in Threads :
        /\ caller[t].pc = "idle"
        /\ caller[t].ret # None
        /\ caller[t].seen > 0
        /\ caller[t].alive

(***************************************************************************)
(* Properties of TR ID selection and of status canonicalization.           *)
(***************************************************************************)
\* The session a _get_tr_id call asks for, and its two table keys.
RequestedSession(c) ==
    IF c.force_session # None THEN c.force_session[1] ELSE c.market_session
ExactKey(c) == << c.account_type, RequestedSession(c), c.is_virtual, c.action >>
DayKey(c) == << c.account_type, "DAY", c.is_virtual, c.action >>

\* C28: the selected TR ID is the exact table entry or the entry of the same
\* class, virtual flag and action under DAY; an unforced CLOSED session is
\* never the effective session; selection fails only when the DAY entry is
\* missing as well.
C28_TrSelection ==
    pure_call.kind = "tr"
      => LET T == TR_MAPPING(pure_call.variant)
             r == pure_call.ret
         IN /\ r.ok => \/ ExactKey(pure_call) \in DOMAIN T /\ r.tr_id = T[ExactKey(pure_call)]
                       \/ DayKey(pure_call) \in DOMAIN T /\ r.tr_id = T[DayKey(pure_call)]
            /\ pure_call.force_session = None => r.session # "CLOSED"
            /\ ~r.ok => DayKey(pure_call) \notin DOMAIN T

\* A TR ID was selected for an unforced call while the market is closed.
C28_ClosedSessionSelected ==
    /\ pure_call.kind = "tr"
    /\ pure_call.force_session = None
    /\ pure_call.market_session = "CLOSED"
    /\ pure_call.ret.ok

\* The records of the canonicalization property: quantities that add up, no
\* cancellation.
Uncancelled(rec) == rec.cncl_yn # "Y" /\ rec.cnc_cfrm_qty = 0
AddsUp(rec) == rec.ord_qty >= rec.tot_ccld_qty + rec.rjct_qty

FillStatus(rec, status) ==
    /\ status = "FILLED" <=> (rec.tot_ccld_qty >= rec.ord_qty /\ rec.ord_qty > 0)
    /\ status = "PARTIAL_FILLED" <=> (0 < rec.tot_ccld_qty /\ rec.tot_ccld_qty < rec.ord_qty)
    /\ status = "PENDING" <=> rec.tot_ccld_qty = 0

\* C29 as stated: for a record whose quantities add up and that is not
\* cancelled, the status is FILLED iff total_filled_qty >= order_qty > 0,
\* PARTIAL_FILLED iff 0 < total_filled_qty < order_qty and PENDING iff
\* total_filled_qty = 0.
C29_FillStatusAsStated ==
    (/\ pure_call.kind = "status"
     /\ AddsUp(pure_call.record)
     /\ Uncancelled(pure_call.record))
      => FillStatus(pure_call.record, pure_call.status)

\* C29, amended: the same for the records that also have rejected_qty = 0.
C29_FillStatus ==
    (/\ pure_call.kind = "status"
     /\ AddsUp(pure_call.record)
     /\ Uncancelled(pure_call.record)
     /\ pure_call.record.rjct_qty = 0)
      => FillStatus(pure_call.record, pure_call.status)

\* A partly filled order was canonicalized.
C29_PartialFillSeen ==
    /\ pure_call.kind = "status"
    /\ pure_call.variant = "trading"
    /\ Uncancelled(pure_call.record)
    /\ pure_call.record.rjct_qty = 0
    /\ pure_call.record.tot_ccld_qty = 1
    /\ pure_call.record.ord_qty = 2
    /\ pure_call.status = "PARTIAL_FILLED"

\* C30: cancellation first, rejection second: a record with cancel_flag Y or
\* cancel_confirmed_qty > 0 is CANCELLED whatever its fill quantities, and any
\* other record with rejected_qty > 0 is REJECTED.
C30_CancelThenReject ==
    pure_call.kind = "status"
      => /\ ~Uncancelled(pure_call.record) => pure_call.status = "CANCELLED"
         /\ (Uncancelled(pure_call.record) /\ pure_call.record.rjct_qty > 0)
              => pure_call.status = "REJECTED"

\* A cancelled record with fills and rejections was canonicalized.
C30_CancelledWithFills ==
    /\ pure_call.kind = "status"
    /\ pure_call.record.cncl_yn = "Y"
    /\ pure_call.record.tot_ccld_qty > 0
    /\ pure_call.record.rjct_qty > 0

(***************************************************************************)
(* Properties of the order-status lookup.                                  *)
(***************************************************************************)
DigitValue == ("0" :> 0) @@ ("1" :> 1)

IsNumber(s) == s # << >> /\ \A i \in 1..Len(s) : s[i] \in Digits

\* int(s) of a string of digits.
RECURSIVE NumberOf(_)
NumberOf(s) ==
    IF s = << >> THEN 0
    ELSE 10 * NumberOf(SubSeq(s, 1, Len(s) - 1)) + DigitValue[s[Len(s)]]

\* The order number a lookup was asked for: the odno part of a stock id.
RequestedNumber(c) ==
    IF c.lookup = "trading_stock" THEN split_odno(c.order_id) ELSE c.order_id

\* C31: an order-status lookup finds the requested order exactly when some
\* record's order number equals the requested one as a number, leading zeros
\* aside: "01" is found in a record numbered "1", and "1" in a record "01".
C31_NumericLookup ==
    (pure_call.kind = "lookup" /\ IsNumber(RequestedNumber(pure_call)))
        => (pure_call.found <=>
               \E i \in 1..Len(pure_call.orders) :
                   NumberOf(pure_call.orders[i]) = NumberOf(RequestedNumber(pure_call)))

\* A lookup for an order number whose record is written with other padding.
C31_PaddedNumberLooked ==
    /\ pure_call.kind = "lookup"
    /\ IsNumber(RequestedNumber(pure_call))
    /\ pure_call.orders[1] # RequestedNumber(pure_call)
    /\ NumberOf(pure_call.orders[1]) = NumberOf(RequestedNumber(pure_call))
    /\ pure_call.found

Clock(hh, mm, ss) == dt_time(hh, mm) + ss * TicksPerSecond

C34_UniqueIdAndToken ==
    pure_call.kind = "secrets" =>
        \A i, j \in 1..Len(pure_call._accounts_cache) :
            i # j => /\ pure_call._accounts_cache[i].id
                           # pure_call._accounts_cache[j].id
                     /\ pure_call._accounts_cache[i].webhook_token
                           # pure_call._accounts_cache[j].webhook_token

\* A configuration with two accounts under one webhook_token was loaded and
\* the token looked up.
C34_SharedTokenLookedUp ==
    /\ pure_call.kind = "secrets"
    /\ pure_call.query.by = "token"
    /\ Len(pure_call.accounts_list) = 2
    /\ pure_call.accounts_list[1].id # pure_call.accounts_list[2].id
    /\ pure_call.accounts_list[1].id # ""
    /\ pure_call.accounts_list[2].id # ""
    /\ pure_call.accounts_list[1].webhook_token = pure_call.query.arg
    /\ pure_call.accounts_list[2].webhook_token = pure_call.query.arg
    /\ pure_call.ret # None

\* C35: a record that fails validation is dropped at load: it is not in the
\* loaded set, and neither the lookup by id nor the lookup by webhook token
\* returns it, nor does the id listing name it.
C35_InvalidNeverReturned ==
    pure_call.kind = "secrets" =>
        /\ \A k \in 1..Len(pure_call._accounts_cache) :
              validate_secret(pure_call._accounts_cache[k])
        /\ pure_call.query.by \in {"id", "token"} =>
              (pure_call.ret # None => validate_secret(pure_call.ret[1]))
        /\ pure_call.query.by = "list" =>
              \A n \in 1..Len(pure_call.ret) :
                  \A k \in 1..Len(pure_call._accounts_cache) :
                      pure_call._accounts_cache[k].id = pure_call.ret[n]
                          => validate_secret(pure_call._accounts_cache[k])

\* A configuration holding a record with a one-character account_product
\* was loaded and that record's id looked up.
C35_InvalidLookedUpById ==
    /\ pure_call.kind = "secrets"
    /\ pure_call.query.by = "id"
    /\ \E k \in 1..Len(pure_call.accounts_list) :
          /\ pure_call.accounts_list[k].id = pure_call.query.arg
          /\ Len(pure_call.accounts_list[k].account_product) # 2
    /\ pure_call.ret = None

(***************************************************************************)
(* Properties of the emergency stop and of position reversal.              *)
(***************************************************************************)
\* C36: once the emergency-stop flag is set no broker order is placed, not
\* even by an execution that passed the gate before the flag was set.
C36_NoOrderAfterStop == [][emergency_stop => Len(placed') <= Len(placed)]_vars

\* The flag is set while a REVERSE awaits the fill of its close order.
C36_StoppedAwaitingClose == emergency_stop /\ pc = "rev_exit_wait"

\* C37: full-trade SELL signals that follow one another with no other change
\* of the position never sell, in total, more than was held before the first.
C37_NoOversell == Sold(placed) <= HeldBefore

\* A second full-trade SELL was resolved after the first one's order filled.
C37_SecondSellResolved ==
    /\ Len(placed) >= 1
    /\ placed[1].ok
    /\ current_position # None

\* C38: a REVERSE places its entry order only after a close order it placed
\* itself was accepted and found FILLED; a position found flat at the re-read
\* is not enough.
C38_EntryOnlyAfterClose ==
    [][ (EntryPlaced' /\ ~EntryPlaced) => (CloseAccepted /\ last_poll = "FILLED") ]_vars

\* An entry order went out although the execution placed no close order.
C38_EntryWithoutClose ==
    /\ EntryPlaced
    /\ \A i \in DOMAIN placed : placed[i].leg # "exit"
    /\ exit_order_id = None

(***************************************************************************)
(* Properties of the risk gate for market orders and unreadable inputs.    *)
(***************************************************************************)
\* C39: every order the risk gate approves was evaluated on a positive
\* notional, a market order without price included: the balance was read for
\* it and the notional checked against the position limit is above zero.
C39_PositiveNotional ==
    pc = "es_execute" =>
        /\ get_estimated_value(order.quantity, order.price) > 0
        /\ ctx.balance_read # Unread

\* The gate approved a market order.
C39_MarketOrderApproved ==
    /\ pc = "es_execute"
    /\ order.price = None
    /\ order.quantity > 0

\* C40: when the day's realized P&L cannot be read the daily-loss check does
\* not approve: the order is refused as a risk error and no order is placed.
C40_UnreadablePnlBlocks ==
    (ctx # None /\ ctx.daily_pnl.status = "error")
        => /\ pc = "done"
           /\ result.error_type = "risk"
           /\ placed = << >>

\* The daily-loss check ran on a P&L query that failed.
C40_PnlQueryFailed ==
    /\ ctx # None
    /\ ctx.daily_pnl.status = "error"
    /\ ctx.portfolio_value # Unread

====
